---- MODULE Spec2Model ----
(***************************************************************************)
(* State-machine model of the send-to-chatgpt browser extension:           *)
(*   - the settings store (StorageManager: dual backend, debounced saves), *)
(*   - the message formatter and validator,                                *)
(*   - the platform registry,                                              *)
(*   - the delivery orchestrator (sendToAI and the background handlers),   *)
(*   - the screenshot delivery variant (handleScreenshotMode).             *)
(*                                                                         *)
(* Time is a millisecond clock `now`.  Timers are ideal: a timer that is   *)
(* due fires before anything else happens and before time advances.        *)
(* Every outcome of a browser capability (storage, clipboard, tabs,        *)
(* scripting) that the code cannot control is a nondeterministic choice.   *)
(***************************************************************************)
EXTENDS Integers, Sequences, FiniteSets, TLC

VARIABLES
    now,              \* the clock, in ms
    DEFAULT_SETTINGS, \* the module-level defaults object of the storage utility
    syncStore,        \* chrome.storage.sync: stored key -> value
    localStore,       \* chrome.storage.local: stored key -> value
    debounceTimer,    \* StorageManager.debounceTimer: 0 is null, else a timer id
    saveTimers,       \* pending setTimeout callbacks of saveSettings
    nextTimerId,      \* the id the next setTimeout returns
    saves,            \* one record per saveSettings call (its promise and writes)
    lastSaveAt,       \* when the latest saveSettings call was made (-1: never)
    lastGet,          \* the outcome of a getSettings call that has just returned
    sends,            \* number of delivery requests made so far
    lastSend,         \* the latest delivery request: inputs, effects, result
    injectTimers,     \* pending deferred injection callbacks of sendToAI
    injections,       \* what the fired injection callbacks did
    openTabs,         \* ids of the tabs that are open
    nextTabId,        \* the id the next chrome.tabs.create returns
    clipboard,        \* the text on the system clipboard
    shot,             \* the screenshot delivery in progress (or idle)
    reset,            \* the resetSettings call in progress (or none)
    changed,          \* the latest storage change event and what the listener did
    ops,              \* the latest custom platform operation and how it ended
    lookup,           \* the latest platform lookup and what it returned
    page,             \* the injection routine running in a platform page
    fmt,              \* the message handed to the formatter and validator, and the results
    racers,           \* the custom platform operations running side by side
    options           \* the options page: its settings object

vars == <<now, DEFAULT_SETTINGS, syncStore, localStore, debounceTimer, saveTimers,
          nextTimerId, saves, lastSaveAt, lastGet, sends, lastSend, injectTimers, injections,
          openTabs, nextTabId, clipboard, shot, reset, changed, ops, lookup, page,
          fmt, racers, options>>

storeVars == <<DEFAULT_SETTINGS, syncStore, localStore, debounceTimer, saveTimers,
               nextTimerId, saves, lastSaveAt, lastGet>>
sendVars == <<sends, lastSend, injectTimers, injections, openTabs, nextTabId,
              clipboard>>
optVars == <<fmt, racers, options>>
extVars == <<reset, changed, ops, lookup, page, optVars>>

(***************************************************************************)
(* Bounds of the model.                                                    *)
(***************************************************************************)
MaxSaves == 3        \* saveSettings calls per behaviour
MaxStoreTicks == 3   \* clock ticks of the settings store behaviours
MaxSends == 1        \* delivery requests per behaviour
MaxSendTicks == 1    \* clock ticks of the delivery behaviours
MaxLatePolls == 2    \* tab polls followed after the tab-load wait is over
MaxResetSaves == 1   \* saveSettings calls made before a resetSettings call
MaxPlatformOps == 2  \* custom platform operations per behaviour
MaxPlatformTicks == 1 \* milliseconds that pass between custom platform operations
MaxRacers == 2       \* custom platform operations running side by side


(***************************************************************************)
(* JavaScript strings.  A string is kept as its run-length encoding: a     *)
(* sequence of runs [c |-> class, n |-> count >= 1], adjacent runs having  *)
(* different classes.  The classes are the ones the code distinguishes:    *)
(*   "sp" a space, "nl" a newline (both white space for trim()),           *)
(*   "al" a letter, digit or other character URL encoding leaves alone,    *)
(*   "qt" a double quote, "uc" a two-byte non-ASCII character.             *)
(***************************************************************************)
Run(c, n) == [c |-> c, n |-> n]
Empty == <<>>

IsWhite(c) == c \in {"sp", "nl"}

RECURSIVE StrLen(_)
StrLen(s) == IF s = <<>> THEN 0 ELSE Head(s).n + StrLen(Tail(s))

\* a + b
Concat(a, b) ==
    IF a = <<>> THEN b
    ELSE IF b = <<>> THEN a
    ELSE IF a[Len(a)].c = b[1].c
         THEN SubSeq(a, 1, Len(a) - 1)
              \o <<Run(b[1].c, a[Len(a)].n + b[1].n)>>
              \o Tail(b)
         ELSE a \o b

RECURSIVE TrimStart(_)
TrimStart(s) ==
    IF s = <<>> THEN s
    ELSE IF IsWhite(Head(s).c) THEN TrimStart(Tail(s)) ELSE s

RECURSIVE TrimEnd(_)
TrimEnd(s) ==
    IF s = <<>> THEN s
    ELSE IF IsWhite(s[Len(s)].c) THEN TrimEnd(SubSeq(s, 1, Len(s) - 1)) ELSE s

\* String.prototype.trim
Trim(s) == TrimEnd(TrimStart(s))

\* The number of characters one character of class c takes in a query string
\* written by URLSearchParams: "+" for a space, %0A, %22, two %XX bytes.
EncodedWidth(c) ==
    CASE c = "sp" -> 1
      [] c = "al" -> 1
      [] c = "nl" -> 3
      [] c = "qt" -> 3
      [] c = "uc" -> 6

RECURSIVE EncodedLen(_)
EncodedLen(s) ==
    IF s = <<>> THEN 0
    ELSE Head(s).n * EncodedWidth(Head(s).c) + EncodedLen(Tail(s))

\* A JavaScript value that is a string, or undefined/null.
Str(s) == [def |-> TRUE, str |-> s]
Undefined == [def |-> FALSE, str |-> Empty]

\* x || ''
OrEmpty(v) == IF v.def THEN v.str ELSE Empty

\* The literals of the formatter.
TwoNewlines == <<Run("nl", 2)>>
FenceOpen == <<Run("qt", 3), Run("nl", 1)>>
FenceClose == <<Run("nl", 1), Run("qt", 3)>>

(***************************************************************************)
(* Message formatter.                                                      *)
(***************************************************************************)
\* A formatter that fences the text as given.
formatMessageForClipboardUntrimmed(message) ==
    LET safeInstructions == OrEmpty(message.instructions)
        safeText == OrEmpty(message.text)
        head == IF Trim(safeInstructions) /= Empty
                THEN Concat(Trim(safeInstructions), TwoNewlines)
                ELSE Empty
    IN  IF Trim(safeText) /= Empty
        THEN Concat(head, Concat(FenceOpen, Concat(safeText, FenceClose)))
        ELSE head

formatMessageForClipboard(message) ==
    LET safeInstructions == OrEmpty(message.instructions)
        safeText == OrEmpty(message.text)
        head == IF Trim(safeInstructions) /= Empty
                THEN Concat(Trim(safeInstructions), TwoNewlines)
                ELSE Empty
    IN  IF Trim(safeText) /= Empty
        THEN Concat(head, Concat(FenceOpen, Concat(Trim(safeText), FenceClose)))
        ELSE head

DefaultModel == "gpt-4o"

\* The length of a model name; model names hold only characters that URL
\* encoding leaves alone.
ModelLen(m) ==
    CASE m = "gpt-4o" -> 6
      [] m = "gpt-4" -> 5
      [] m = "o1-mini" -> 7

\* "https://chatgpt.com/" followed by "?q="
UrlPrefixLen == 23
\* "&model="
ModelParamLen == 7

\* The length of the URL buildChatGPTUrl returns.  message.model is a model
\* name or "undefined".
buildChatGPTUrlLen(message) ==
    LET model == IF message.model = "undefined" THEN DefaultModel ELSE message.model
        fullMessage == formatMessageForClipboard(message)
    IN  UrlPrefixLen + EncodedLen(fullMessage)
        + (IF model /= DefaultModel THEN ModelParamLen + ModelLen(model) ELSE 0)

URL_SIZE_LIMIT == 1800
MAX_MESSAGE_LENGTH == 16384

\* A validator that adds up the lengths of the two fields as given.
validateMessageRawLengths(message) ==
    LET safeText == OrEmpty(message.text)
        safeInstructions == OrEmpty(message.instructions)
    IN  IF Trim(safeText) = Empty /\ Trim(safeInstructions) = Empty
        THEN [valid |-> FALSE, error |-> "Please enter some text or instructions"]
        ELSE IF StrLen(safeText) + StrLen(safeInstructions) > MAX_MESSAGE_LENGTH
        THEN [valid |-> FALSE,
              error |-> "Message too long. Please shorten your text or instructions."]
        ELSE [valid |-> TRUE, error |-> "none"]

validateMessage(message) ==
    LET safeText == OrEmpty(message.text)
        safeInstructions == OrEmpty(message.instructions)
    IN  IF Trim(safeText) = Empty /\ Trim(safeInstructions) = Empty
        THEN [valid |-> FALSE, error |-> "Please enter some text or instructions"]
        ELSE IF StrLen(formatMessageForClipboard(message)) > MAX_MESSAGE_LENGTH
        THEN [valid |-> FALSE,
              error |-> "Message too long. Please shorten your text or instructions."]
        ELSE [valid |-> TRUE, error |-> "none"]

\* The values of a message field the formatter and the validator are applied
\* to: absent, empty, blank, padded, holding quotes and non-ASCII characters,
\* and long ones around the length limit.
FieldValues ==
    {Undefined, Str(Empty), Str(<<Run("sp", 2)>>),
     Str(<<Run("sp", 1), Run("al", 5), Run("nl", 1)>>),
     Str(<<Run("qt", 1), Run("al", 2), Run("uc", 1)>>),
     Str(<<Run("al", 8187)>>), Str(<<Run("al", 8188)>>),
     Str(<<Run("al", MAX_MESSAGE_LENGTH - 8)>>),
     Str(<<Run("al", MAX_MESSAGE_LENGTH - 7)>>),
     Str(<<Run("al", MAX_MESSAGE_LENGTH - 2)>>),
     Str(<<Run("al", MAX_MESSAGE_LENGTH - 1)>>),
     Str(<<Run("al", MAX_MESSAGE_LENGTH - 8), Run("sp", 100)>>)}

FormatMessages == [text : FieldValues, instructions : FieldValues]

\* No message was formatted or validated.
NoMessage ==
    [message |-> [text |-> Undefined, instructions |-> Undefined],
     formatted |-> FALSE, fullMessage |-> Empty,
     validated |-> FALSE, validation |-> [valid |-> FALSE, error |-> "none"]]

\* formatMessageForClipboard(message) is called.
FormatMessage ==
    /\ ~fmt.formatted
    /\ fmt' = [fmt EXCEPT !.formatted = TRUE,
                          !.fullMessage = formatMessageForClipboard(fmt.message)]
    /\ UNCHANGED <<now, storeVars, sendVars, shot, reset, changed, ops, lookup, page,
                   racers, options>>

\* validateMessage(message) is called.
ValidateMessage ==
    /\ ~fmt.validated
    /\ fmt' = [fmt EXCEPT !.validated = TRUE,
                          !.validation = validateMessage(fmt.message)]
    /\ UNCHANGED <<now, storeVars, sendVars, shot, reset, changed, ops, lookup, page,
                   racers, options>>

\* The screenshot delivery: where handleScreenshotMode is ("idle": not
\* called, "waiting": in waitForTabToLoad, "retrying": copying in the platform
\* tab, "done": returned), its argument, the outcome of the first clipboard
\* write, the platform tab and its load status, whether the wait promise is
\* resolved, when the next checkTab and the fallback timeout are due (-1: not
\* armed), the polls issued, the tabs created, the clipboard writes retried in
\* the platform tab, how the promise settled and the result.
ShotIdle ==
    [pc |-> "idle", platform |-> "undefined", platformName |-> "undefined",
     clipboardSuccess |-> FALSE, firstCopy |-> FALSE,
     tab |-> 0, tabStatus |-> "none", waitResolved |-> FALSE,
     waitStart |-> -1, waitEnd |-> -1,
     pollDue |-> -1, timeoutDue |-> -1, polls |-> 0, latePolls |-> 0,
     created |-> 0, retries |-> 0, settled |-> "pending",
     result |-> [success |-> FALSE, error |-> "undefined", platform |-> "undefined"]]

(***************************************************************************)
(* Settings store (StorageManager).                                        *)
(***************************************************************************)
DefaultSettings0 ==
    [autoSend |-> FALSE,
     defaultInstructions |-> "",
     maxTextLength |-> 8192,
     defaultModel |-> "gpt-4o",
     darkMode |-> FALSE,
     saveInstructions |-> FALSE,
     defaultPlatform |-> "chatgpt"]

DEBOUNCE_DELAY == 300

\* The clock of the settings store behaviours ticks twice per debounce window.
StoreTickMs == DEBOUNCE_DELAY \div 2

\* A storage area with nothing stored.
EmptyStore == [k \in {} |-> TRUE]

\* { ...base, ...over }
Spread(base, over) ==
    [k \in DOMAIN base \cup DOMAIN over |->
        IF k \in DOMAIN over THEN over[k] ELSE base[k]]

\* A get() that returns everything the area holds.
StorageGetAll(store, defaults) == Spread(defaults, store)

\* chrome.storage.<area>.get(defaults): the stored value of every key of
\* `defaults`, and the default of a key that is not stored.
StorageGet(store, defaults) ==
    [k \in DOMAIN defaults |-> IF k \in DOMAIN store THEN store[k] ELSE defaults[k]]

\* chrome.storage.<area>.set(items)
StorageSet(store, items) == Spread(store, items)

\* The custom platform the behaviours start with in storage, and the id of
\* one that was removed.
CustomId == "custom_1"
GoneId == "custom_gone"
Custom1 == [id |-> CustomId, name |-> "Perplexity", icon |-> "P",
            url |-> "https://www.perplexity.ai"]

\* What the two storage areas <<sync, local>> hold when the extension starts.
InitialStores ==
    {<<EmptyStore, EmptyStore>>,
     <<EmptyStore, [autoSend |-> FALSE]>>,
     <<[darkMode |-> TRUE, customPlatforms |-> <<Custom1>>], [autoSend |-> TRUE]>>}

\* The patches the callers of saveSettings pass.
Patches ==
    {[autoSend |-> TRUE],
     [darkMode |-> TRUE, defaultInstructions |-> "Summarize"]}

NoGet ==
    [called |-> FALSE, settled |-> "none", value |-> EmptyStore, reads |-> <<>>,
     syncRejected |-> FALSE, localRejected |-> FALSE]

\* The outcome of a getSettings call: how its promise settled, the value, the
\* backends it read, in order, and which of the reads rejected.
GetOutcome(value, reads, syncRejects, localRejects) ==
    [called |-> TRUE, settled |-> "resolved", value |-> value, reads |-> reads,
     syncRejected |-> syncRejects, localRejected |-> localRejects]

\* A getSettings that gives up after the synchronized read rejects.
getSettingsNoFallback(syncRejects, localRejects) ==
    IF ~syncRejects
    THEN GetOutcome(Spread(DEFAULT_SETTINGS, StorageGet(syncStore, DEFAULT_SETTINGS)),
                    <<"sync">>, syncRejects, FALSE)
    ELSE GetOutcome(DEFAULT_SETTINGS, <<"sync">>, syncRejects, FALSE)

\* getSettings, given which backend reads reject.
getSettings(syncRejects, localRejects) ==
    IF ~syncRejects
    THEN GetOutcome(Spread(DEFAULT_SETTINGS, StorageGet(syncStore, DEFAULT_SETTINGS)),
                    <<"sync">>, syncRejects, FALSE)
    ELSE IF ~localRejects
    THEN GetOutcome(Spread(DEFAULT_SETTINGS, StorageGet(localStore, DEFAULT_SETTINGS)),
                    <<"sync", "local">>, syncRejects, localRejects)
    ELSE GetOutcome(DEFAULT_SETTINGS, <<"sync", "local">>, syncRejects, localRejects)

\* A clearTimeout that cancels nothing.
ClearTimeoutNoop(timers, id) == timers

\* clearTimeout(id) on the pending timers
ClearTimeout(timers, id) == {t \in timers : t.id /= id}

\* No timer is due: ideal timers run their callback before anything else.
NoTimerDue ==
    /\ \A t \in saveTimers : t.due > now
    /\ \A t \in injectTimers : t.due > now
    /\ shot.pollDue = -1 \/ shot.pollDue > now
    /\ shot.timeoutDue = -1 \/ shot.timeoutDue > now

\* The record of a saveSettings call: its patch, its promise, the sync and
\* local set() calls it issued and how each ended ("none": not issued,
\* "inflight", "ok", "failed"), and whether the next call arrived less than
\* DEBOUNCE_DELAY ms after it.
NewSave(settings) ==
    [settings |-> settings, promise |-> "pending",
     syncSets |-> <<>>, localSets |-> <<>>, sync |-> "none", local |-> "none",
     superseded |-> FALSE]

\* The calls made so far, the latest one marked as followed within the
\* debounce window when the call made now is.
MarkSuperseded ==
    IF saves /= <<>> /\ now - lastSaveAt < DEBOUNCE_DELAY
    THEN [saves EXCEPT ![Len(saves)].superseded = TRUE]
    ELSE saves

\* saveSettings(settings): cancel the pending timer, arm a new one.
saveSettings(settings) ==
    /\ NoTimerDue
    /\ Len(saves) < MaxSaves
    /\ saveTimers' =
          (IF debounceTimer /= 0 THEN ClearTimeout(saveTimers, debounceTimer)
                                 ELSE saveTimers)
          \cup {[id |-> nextTimerId, due |-> now + DEBOUNCE_DELAY,
                 call |-> Len(saves) + 1, settings |-> settings]}
    /\ debounceTimer' = nextTimerId
    /\ nextTimerId' = nextTimerId + 1
    /\ saves' = Append(MarkSuperseded, NewSave(settings))
    /\ lastSaveAt' = now
    /\ lastGet' = NoGet
    /\ UNCHANGED <<now, DEFAULT_SETTINGS, syncStore, localStore>>
    /\ UNCHANGED <<sendVars, shot, extVars>>

\* The timer callback starts: chrome.storage.sync.set(settings) is issued.
OnSaveTimer(rec, settings) ==
    [rec EXCEPT !.syncSets = Append(@, settings), !.sync = "inflight"]

SaveTimerFires ==
    \E t \in saveTimers :
        /\ t.due <= now
        /\ saveTimers' = saveTimers \ {t}
        /\ saves' = [saves EXCEPT ![t.call] = OnSaveTimer(@, t.settings)]
        /\ lastGet' = NoGet
        /\ UNCHANGED <<now, DEFAULT_SETTINGS, syncStore, localStore, debounceTimer,
                       nextTimerId, lastSaveAt>>
        /\ UNCHANGED <<sendVars, shot, extVars>>

\* The sync set() settled: resolve, or fall back to chrome.storage.local.set.
OnSyncSetSettled(rec, ok) ==
    IF ok
    THEN [rec EXCEPT !.sync = "ok", !.promise = "resolved"]
    ELSE [rec EXCEPT !.sync = "failed", !.local = "inflight",
                     !.localSets = Append(@, rec.syncSets[Len(rec.syncSets)])]

SyncSetSettles ==
    \E c \in 1..Len(saves), ok \in BOOLEAN :
        /\ NoTimerDue
        /\ saves[c].sync = "inflight"
        /\ saves' = [saves EXCEPT ![c] = OnSyncSetSettled(@, ok)]
        /\ syncStore' = IF ok THEN StorageSet(syncStore, saves[c].syncSets[1])
                              ELSE syncStore
        /\ lastGet' = NoGet
        /\ UNCHANGED <<now, DEFAULT_SETTINGS, localStore, debounceTimer, saveTimers,
                       nextTimerId, lastSaveAt>>
        /\ UNCHANGED <<sendVars, shot, extVars>>

\* A local set() failure that is thrown to the caller.
OnLocalSetSettledThrows(rec, ok) ==
    [rec EXCEPT !.local = IF ok THEN "ok" ELSE "failed",
                !.promise = IF ok THEN "resolved" ELSE "rejected"]

\* The local set() settled: the promise resolves either way.
OnLocalSetSettled(rec, ok) ==
    [rec EXCEPT !.local = IF ok THEN "ok" ELSE "failed", !.promise = "resolved"]

LocalSetSettles ==
    \E c \in 1..Len(saves), ok \in BOOLEAN :
        /\ NoTimerDue
        /\ saves[c].local = "inflight"
        /\ saves' = [saves EXCEPT ![c] = OnLocalSetSettled(@, ok)]
        /\ localStore' = IF ok THEN StorageSet(localStore, saves[c].localSets[1])
                               ELSE localStore
        /\ lastGet' = NoGet
        /\ UNCHANGED <<now, DEFAULT_SETTINGS, syncStore, debounceTimer, saveTimers,
                       nextTimerId, lastSaveAt>>
        /\ UNCHANGED <<sendVars, shot, extVars>>

GetSettings ==
    \E syncRejects \in BOOLEAN, localRejects \in BOOLEAN :
        /\ NoTimerDue
        /\ lastGet' = getSettings(syncRejects, localRejects)
        /\ UNCHANGED <<now, DEFAULT_SETTINGS, syncStore, localStore, debounceTimer,
                       saveTimers, nextTimerId, saves, lastSaveAt>>
        /\ UNCHANGED <<sendVars, shot, extVars>>

SaveSettings == \E settings \in Patches : saveSettings(settings)

\* The earliest time a pending timer is due, or `limit` when that is sooner.
RECURSIVE MinDue(_, _)
MinDue(timers, limit) ==
    IF timers = {} THEN limit
    ELSE LET t == CHOOSE x \in timers : TRUE
             rest == MinDue(timers \ {t}, limit)
         IN  IF t.due < rest THEN t.due ELSE rest

\* Time passes in the settings store: by one tick, or up to the next timer.
StoreTick ==
    /\ NoTimerDue
    /\ saveTimers = {} => now < MaxStoreTicks * StoreTickMs
    /\ now' = MinDue(saveTimers, now + StoreTickMs)
    /\ lastGet' = NoGet
    /\ UNCHANGED <<DEFAULT_SETTINGS, syncStore, localStore, debounceTimer, saveTimers,
                   nextTimerId, saves, lastSaveAt>>
    /\ UNCHANGED <<sendVars, shot, extVars>>

(***************************************************************************)
(* resetSettings.                                                          *)
(***************************************************************************)
\* The record of the resetSettings call: where it is ("idle": not called,
\* "syncClear" and "localClear": awaiting that clear(), "done": returned), how
\* its promise settled, the clear() calls it issued, in order, and how each
\* ended ("none": not issued, "inflight", "ok", "failed").
NoReset ==
    [pc |-> "idle", settled |-> "pending", clears |-> <<>>,
     sync |-> "none", local |-> "none"]

\* chrome.storage.<area>.clear()
StorageClear(store) == EmptyStore

\* resetSettings(): chrome.storage.sync.clear() is issued.
resetSettings(rec) ==
    [rec EXCEPT !.pc = "syncClear", !.clears = <<"sync">>, !.sync = "inflight"]

\* The sync clear() settled: go on to chrome.storage.local.clear(), or land in
\* the catch, which logs and lets the function return.
OnSyncClearSettled(rec, ok) ==
    IF ok
    THEN [rec EXCEPT !.sync = "ok", !.pc = "localClear",
                     !.clears = Append(@, "local"), !.local = "inflight"]
    ELSE [rec EXCEPT !.sync = "failed", !.pc = "done", !.settled = "resolved"]

\* A local clear() failure that is thrown to the caller.
OnLocalClearSettledThrows(rec, ok) ==
    [rec EXCEPT !.local = IF ok THEN "ok" ELSE "failed", !.pc = "done",
                !.settled = IF ok THEN "resolved" ELSE "rejected"]

\* The local clear() settled: the function returns either way.
OnLocalClearSettled(rec, ok) ==
    [rec EXCEPT !.local = IF ok THEN "ok" ELSE "failed", !.pc = "done",
                !.settled = "resolved"]

ResetSettings ==
    /\ NoTimerDue
    /\ reset.pc = "idle"
    /\ reset' = resetSettings(reset)
    /\ lastGet' = NoGet
    /\ UNCHANGED <<now, DEFAULT_SETTINGS, syncStore, localStore, debounceTimer,
                   saveTimers, nextTimerId, saves, lastSaveAt>>
    /\ UNCHANGED <<sendVars, shot, changed, ops, lookup, page, optVars>>

SyncClearSettles ==
    \E ok \in BOOLEAN :
        /\ NoTimerDue
        /\ reset.pc = "syncClear"
        /\ reset' = OnSyncClearSettled(reset, ok)
        /\ syncStore' = IF ok THEN StorageClear(syncStore) ELSE syncStore
        /\ lastGet' = NoGet
        /\ UNCHANGED <<now, DEFAULT_SETTINGS, localStore, debounceTimer, saveTimers,
                       nextTimerId, saves, lastSaveAt>>
        /\ UNCHANGED <<sendVars, shot, changed, ops, lookup, page, optVars>>

LocalClearSettles ==
    \E ok \in BOOLEAN :
        /\ NoTimerDue
        /\ reset.pc = "localClear"
        /\ reset' = OnLocalClearSettled(reset, ok)
        /\ localStore' = IF ok THEN StorageClear(localStore) ELSE localStore
        /\ lastGet' = NoGet
        /\ UNCHANGED <<now, DEFAULT_SETTINGS, syncStore, debounceTimer, saveTimers,
                       nextTimerId, saves, lastSaveAt>>
        /\ UNCHANGED <<sendVars, shot, changed, ops, lookup, page, optVars>>

\* A saveSettings call made before resetSettings is called.
SaveBeforeReset ==
    /\ reset.pc = "idle"
    /\ Len(saves) < MaxResetSaves
    /\ SaveSettings

(***************************************************************************)
(* onSettingsChanged.                                                      *)
(***************************************************************************)
\* The property names every object inherits from Object.prototype (some of
\* them): `key in obj` and obj[key] find them on an object literal.
ObjectPrototypeKeys == {"constructor", "toString"}

\* key in obj
KeyIn(key, obj) == key \in DOMAIN obj \/ key \in ObjectPrototypeKeys

\* No listener is registered and no change event was dispatched.
NoChange ==
    [registered |-> FALSE, fired |-> FALSE, areaName |-> "none",
     changes |-> EmptyStore, invoked |-> FALSE, arg |-> EmptyStore]

\* The storage areas chrome.storage.onChanged reports.
AreaNames == {"sync", "local", "managed", "session"}

\* The keys of the change events: two settings, the custom platform list and
\* a key of an imported settings file that is no setting.
ChangeKeys == {"autoSend", "darkMode", "customPlatforms", "constructor"}

\* The change events: for each changed key its old and its new value, the
\* new value of a removed key being undefined.
ChangeEvents ==
    UNION {[keys -> {[oldValue |-> "old", newValue |-> v] :
                        v \in {"new", "undefined"}}] :
              keys \in SUBSET ChangeKeys \ {{}}}

\* settingsChanges: of the changed keys those that are `in DEFAULT_SETTINGS`,
\* each with its newValue.
SettingsChanges(changes) ==
    [key \in {k \in DOMAIN changes : KeyIn(k, DEFAULT_SETTINGS)} |->
        changes[key].newValue]

\* The listener onSettingsChanged adds to chrome.storage.onChanged.
StorageListener(rec, changes, areaName) ==
    LET settingsChanges == SettingsChanges(changes)
        calls == /\ areaName \in {"sync", "local"}
                 /\ DOMAIN settingsChanges /= {}
    IN  [rec EXCEPT !.fired = TRUE, !.areaName = areaName, !.changes = changes,
                    !.invoked = calls,
                    !.arg = IF calls THEN settingsChanges ELSE EmptyStore]

\* onSettingsChanged(callback)
OnSettingsChanged ==
    /\ ~changed.registered
    /\ changed' = [changed EXCEPT !.registered = TRUE]
    /\ UNCHANGED <<now, storeVars, sendVars, shot, reset, ops, lookup, page, optVars>>

\* chrome.storage.onChanged dispatches an event to the listener.
StorageChanged ==
    /\ changed.registered
    /\ \E changes \in ChangeEvents, areaName \in AreaNames :
          changed' = StorageListener(changed, changes, areaName)
    /\ UNCHANGED <<now, storeVars, sendVars, shot, reset, ops, lookup, page, optVars>>

(***************************************************************************)
(* Platform registry.                                                      *)
(***************************************************************************)
AI_PLATFORMS ==
    [chatgpt |->
        [id |-> "chatgpt", name |-> "ChatGPT", url |-> "https://chatgpt.com",
         selectors |-> <<"textarea[data-id=\"root\"]",
                         "textarea[placeholder*=\"Message\"]",
                         "textarea[placeholder*=\"message\"]",
                         "textarea[placeholder*=\"Send\"]",
                         "textarea[placeholder*=\"send\"]",
                         "div[contenteditable=\"true\"]",
                         "textarea">>],
     claude |->
        [id |-> "claude", name |-> "Claude", url |-> "https://claude.ai/new",
         selectors |-> <<"div[contenteditable=\"true\"]",
                         "textarea[placeholder*=\"Talk to Claude\"]",
                         "textarea[placeholder*=\"Message\"]",
                         "textarea[placeholder*=\"message\"]",
                         ".ProseMirror",
                         "textarea">>],
     gemini |->
        [id |-> "gemini", name |-> "Gemini", url |-> "https://gemini.google.com/app",
         selectors |-> <<"textarea[placeholder*=\"Enter a prompt here\"]",
                         "textarea[placeholder*=\"Message Gemini\"]",
                         "div[contenteditable=\"true\"]",
                         "textarea[placeholder*=\"Ask Gemini\"]",
                         "textarea">>]]

\* getCustomPlatforms, given which backend answers the read ("sync", "local",
\* or "none" when both reads reject): result.customPlatforms || []
getCustomPlatforms(reads) ==
    LET store == IF reads = "sync" THEN syncStore
                 ELSE IF reads = "local" THEN localStore
                 ELSE EmptyStore
    IN  IF "customPlatforms" \in DOMAIN store THEN store.customPlatforms ELSE <<>>

\* What AI_PLATFORMS[key] is for a key the object literal does not have but
\* inherits: a function of Object.prototype, which is truthy and has a name
\* but no id, no url and no selectors.
InheritedMember(key) ==
    [id |-> "undefined", name |-> IF key = "constructor" THEN "Object" ELSE key,
     url |-> "undefined", selectors |-> <<>>]

\* AI_PLATFORMS[platformId] is truthy.
HasPlatform(platformId) ==
    platformId \in DOMAIN AI_PLATFORMS \/ platformId \in ObjectPrototypeKeys

\* AI_PLATFORMS[platformId], when truthy.
PlatformAt(platformId) ==
    IF platformId \in DOMAIN AI_PLATFORMS THEN AI_PLATFORMS[platformId]
    ELSE InheritedMember(platformId)

\* getBuiltInPlatform(platformId)
getBuiltInPlatform(platformId) ==
    IF HasPlatform(platformId) THEN PlatformAt(platformId) ELSE AI_PLATFORMS.chatgpt

\* getPlatform(platformId); "undefined" never reaches it.
getPlatform(platformId, reads) ==
    IF HasPlatform(platformId)
    THEN PlatformAt(platformId)
    ELSE LET customPlatforms == getCustomPlatforms(reads)
             found == {i \in 1..Len(customPlatforms) : customPlatforms[i].id = platformId}
         IN  IF found /= {}
             THEN LET customPlatform == customPlatforms[CHOOSE i \in found :
                                                            \A j \in found : i <= j]
                  IN  [id |-> customPlatform.id, name |-> customPlatform.name,
                       url |-> customPlatform.url, selectors |-> <<>>]
             ELSE AI_PLATFORMS.chatgpt

(***************************************************************************)
(* Custom platform operations and platform lookup.                         *)
(***************************************************************************)
\* String(n) for a natural number.
Digit == <<"0", "1", "2", "3", "4", "5", "6", "7", "8", "9">>

RECURSIVE NumberToString(_)
NumberToString(n) ==
    IF n < 10 THEN Digit[n + 1]
    ELSE NumberToString(n \div 10) \o Digit[(n % 10) + 1]

\* Values of Math.random().toString(36).substr(2, 9).
RandomSuffixes == {"k3x9q2m1a", "7fh2p0zzb"}

\* An id generator that hands out one id over and over.
NewCustomIdFixed(t, suffix) == CustomId

\* `custom_${Date.now()}_${Math.random().toString(36).substr(2, 9)}`
NewCustomId(t, suffix) == "custom_" \o NumberToString(t) \o "_" \o suffix

\* The platform the options page adds, and the changes it makes to one.
NewPlatform == [name |-> "Mistral", icon |-> "M", url |-> "https://chat.mistral.ai"]
PlatformUpdates == {[name |-> "Renamed"], [url |-> "https://example.org", icon |-> "E"]}

PlatformIds(platforms) == {platforms[i].id : i \in 1..Len(platforms)}

\* No custom platform operation was made.
NoOp ==
    [op |-> "none", n |-> 0, id |-> "undefined", reads |-> "sync", read |-> <<>>,
     saved |-> FALSE, written |-> <<>>, writes |-> <<>>, failed |-> {},
     settled |-> "pending", issued |-> {}]

\* saveCustomPlatforms(platforms), given how far the write gets ("sync": the
\* synchronized set() succeeds, "local": it fails and the local set()
\* succeeds, "throws": both fail): the set() calls issued, in order, those
\* that failed, how the promise settled, and the two areas afterwards.
saveCustomPlatforms(platforms, write) ==
    LET items == [customPlatforms |-> platforms]
    IN  IF write = "sync"
        THEN [writes |-> <<"sync">>, failed |-> {}, settled |-> "resolved",
              sync |-> StorageSet(syncStore, items), local |-> localStore]
        ELSE IF write = "local"
        THEN [writes |-> <<"sync", "local">>, failed |-> {"sync"},
              settled |-> "resolved",
              sync |-> syncStore, local |-> StorageSet(localStore, items)]
        ELSE [writes |-> <<"sync", "local">>, failed |-> {"sync", "local"},
              settled |-> "rejected", sync |-> syncStore, local |-> localStore]

\* The record of an operation that read `platforms` and saved `written`.
Saved(op, id, env, platforms, written, save) ==
    [op |-> op, n |-> ops.n + 1, id |-> id, reads |-> env.reads, read |-> platforms,
     saved |-> TRUE, written |-> written, writes |-> save.writes,
     failed |-> save.failed, settled |-> save.settled, issued |-> ops.issued]

\* The record of an operation that read `platforms` and saved nothing.
NotSaved(op, id, env, platforms) ==
    [op |-> op, n |-> ops.n + 1, id |-> id, reads |-> env.reads, read |-> platforms,
     saved |-> FALSE, written |-> <<>>, writes |-> <<>>, failed |-> {},
     settled |-> "resolved", issued |-> ops.issued]

\* addCustomPlatform(platform) when the generated id is `id`.
addCustomPlatform(platform, id, env) ==
    LET platforms == getCustomPlatforms(env.reads)
        newPlatform == Spread([id |-> id], platform)
        pushed == Append(platforms, newPlatform)
        save == saveCustomPlatforms(pushed, env.write)
    IN  [rec |-> [Saved("add", id, env, platforms, pushed, save)
                    EXCEPT !.issued = @ \cup {id}],
         save |-> save]

\* removeCustomPlatform(id)
removeCustomPlatform(id, env) ==
    LET platforms == getCustomPlatforms(env.reads)
        filtered == SelectSeq(platforms, LAMBDA p : p.id /= id)
        save == saveCustomPlatforms(filtered, env.write)
    IN  [rec |-> Saved("remove", id, env, platforms, filtered, save), save |-> save]

\* updateCustomPlatform(id, updates)
updateCustomPlatform(id, updates, env) ==
    LET platforms == getCustomPlatforms(env.reads)
        found == {i \in 1..Len(platforms) : platforms[i].id = id}
    IN  IF found /= {}
        THEN LET index == CHOOSE i \in found : \A j \in found : i <= j
                 merged == [platforms EXCEPT ![index] = Spread(@, updates)]
                 save == saveCustomPlatforms(merged, env.write)
             IN  [rec |-> Saved("update", id, env, platforms, merged, save),
                  save |-> save]
        ELSE [rec |-> NotSaved("update", id, env, platforms),
              save |-> [sync |-> syncStore, local |-> localStore]]

\* Which backend answers the read of an operation and how far its write gets.
OpEnvs == [reads : {"sync", "local", "none"}, write : {"sync", "local", "throws"}]

\* An operation ran to its end.
Operated(done) ==
    /\ ops' = done.rec
    /\ syncStore' = done.save.sync
    /\ localStore' = done.save.local
    /\ lookup' = [called |-> FALSE]
    /\ UNCHANGED <<now, DEFAULT_SETTINGS, debounceTimer, saveTimers, nextTimerId,
                   saves, lastSaveAt, lastGet>>
    /\ UNCHANGED <<sendVars, shot, reset, changed, page, optVars>>

\* The ids the callers pass: those stored in either backend, one generated
\* earlier in the behaviour, and one that was never stored.
KnownIds ==
    PlatformIds(getCustomPlatforms("sync")) \cup PlatformIds(getCustomPlatforms("local"))
    \cup ops.issued \cup {CustomId, GoneId}

\* The suffix of Math.random() is taken not to repeat within a millisecond:
\* an id is generated once.
AddCustomPlatform ==
    /\ ops.n < MaxPlatformOps
    /\ \E suffix \in RandomSuffixes, env \in OpEnvs :
          /\ NewCustomId(now, suffix) \notin ops.issued
          /\ Operated(addCustomPlatform(NewPlatform, NewCustomId(now, suffix), env))

RemoveCustomPlatform ==
    /\ ops.n < MaxPlatformOps
    /\ \E id \in KnownIds, env \in OpEnvs :
          Operated(removeCustomPlatform(id, env))

UpdateCustomPlatform ==
    /\ ops.n < MaxPlatformOps
    /\ \E id \in KnownIds, updates \in PlatformUpdates, env \in OpEnvs :
          /\ id \notin PlatformIds(getCustomPlatforms(env.reads)) => env.write = "sync"
          /\ Operated(updateCustomPlatform(id, updates, env))

\* No platform was looked up.
NoLookup == [called |-> FALSE]

\* The ids looked up: the built-in ones, the custom ones, and strings that
\* name no platform, among them a property name of Object.prototype.
LookupIds == DOMAIN AI_PLATFORMS \cup KnownIds \cup {"constructor"}

\* getPlatform(id) and getBuiltInPlatform(id) are called.
ResolvePlatform ==
    /\ \E id \in LookupIds, reads \in {"sync", "local", "none"} :
          lookup' = [called |-> TRUE, id |-> id, reads |-> reads,
                     customPlatforms |-> getCustomPlatforms(reads),
                     platform |-> getPlatform(id, reads),
                     builtIn |-> getBuiltInPlatform(id)]
    /\ UNCHANGED <<now, storeVars, sendVars, shot, reset, changed, ops, page, optVars>>

\* A millisecond passes.
PlatformTick ==
    /\ now < MaxPlatformTicks
    /\ now' = now + 1
    /\ lookup' = NoLookup
    /\ UNCHANGED <<storeVars, sendVars, shot, reset, changed, ops, page, optVars>>

(***************************************************************************)
(* In-page injection: injectTextIntoPlatform and the function it runs in   *)
(* the platform tab.                                                       *)
(***************************************************************************)
\* The generic selectors tried for a platform that has none.
GenericSelectors ==
    <<"textarea[placeholder*=\"message\"]", "textarea[placeholder*=\"Message\"]",
      "textarea[placeholder*=\"chat\"]", "textarea[placeholder*=\"Chat\"]",
      "textarea[placeholder*=\"prompt\"]", "textarea[placeholder*=\"Prompt\"]",
      "textarea[placeholder*=\"ask\"]", "textarea[placeholder*=\"Ask\"]",
      "textarea[placeholder*=\"type\"]", "textarea[placeholder*=\"Type\"]",
      "div[contenteditable=\"true\"]", "textarea[data-testid*=\"input\"]",
      "textarea[data-testid*=\"message\"]", "textarea[role=\"textbox\"]",
      "div[role=\"textbox\"]", "textarea", "input[type=\"text\"]">>

selectorsToTry(platform) ==
    IF Len(platform.selectors) > 0 THEN platform.selectors ELSE GenericSelectors

\* What document.querySelector(selector) finds: nothing, a textarea, a div
\* with contentEditable "true", an <input type="text">, an element of another
\* kind, or a textarea whose event dispatch throws.
ElementKinds == {"null", "textarea", "editable", "input", "other", "throws"}

\* The pages looked at: only the first and the last selector of the list
\* match anything, and the last one, which is textarea or input[type="text"],
\* an element of that type.
Doms(selectors) ==
    {[i \in 1..Len(selectors) |->
         IF i = 1 THEN first ELSE IF i = Len(selectors) THEN last ELSE "null"] :
     first \in ElementKinds \ {"input"},
     last \in {"null", IF selectors[Len(selectors)] = "textarea"
                       THEN "textarea" ELSE "input"}}

\* injectContent(): the selectors scanned from index i on; 0 when none took
\* the text, else the index of the selector whose element took it.
RECURSIVE injectContent(_, _, _)
injectContent(selectors, dom, i) ==
    IF i > Len(selectors) THEN 0
    ELSE IF dom[i] \in {"textarea", "editable"} THEN i
    ELSE injectContent(selectors, dom, i + 1)

\* A retry ladder with the same delay on every rung.
RetryDelayFlat(attemptIndex) == 1000

retryAttempts == <<0, 1000, 2000, 5000>>

\* retryAttempts[attemptIndex] (zero-based index)
RetryDelay(attemptIndex) == retryAttempts[attemptIndex + 1]

NoRetry == [set |-> FALSE, armed |-> 0, due |-> 0]

\* injectTextIntoPlatform was not called.
NoPage ==
    [pc |-> "none", platform |-> "undefined", dom |-> <<>>, attemptIndex |-> 0,
     scans |-> <<>>, timer |-> NoRetry]

\* tryInject() at time t on the page rec.dom.
tryInject(rec, t) ==
    LET selectors == selectorsToTry(getPlatform(rec.platform, "sync"))
        hit == injectContent(selectors, rec.dom, 1)
        scan == [at |-> t, dom |-> rec.dom, hit |-> hit]
        scanned == [rec EXCEPT !.scans = Append(@, scan), !.timer = NoRetry]
    IN  IF hit /= 0
        THEN [scanned EXCEPT !.pc = "injected"]
        ELSE LET next == rec.attemptIndex + 1
             IN  IF next < Len(retryAttempts)
                 THEN [scanned EXCEPT
                          !.pc = "waiting",
                          !.attemptIndex = next,
                          !.timer = [set |-> TRUE, armed |-> t,
                                     due |-> t + RetryDelay(next)]]
                 ELSE [scanned EXCEPT !.pc = "gaveUp", !.attemptIndex = next]

\* The platforms text is injected into: the built-in ones and a stored custom
\* one.
InjectPlatforms == DOMAIN AI_PLATFORMS \cup {CustomId}

\* The script starts in the platform tab and scans at once.
InjectTextIntoPlatform ==
    /\ page.pc = "none"
    /\ \E platformId \in InjectPlatforms :
          \E dom \in Doms(selectorsToTry(getPlatform(platformId, "sync"))) :
              page' = tryInject([NoPage EXCEPT !.platform = platformId, !.dom = dom], now)
    /\ UNCHANGED <<now, storeVars, sendVars, shot, reset, changed, ops, lookup, optVars>>

\* The page changes while a retry is pending.
DomChanges ==
    /\ page.pc = "waiting"
    /\ \E dom \in Doms(selectorsToTry(getPlatform(page.platform, "sync"))) :
          /\ dom /= page.dom
          /\ page' = [page EXCEPT !.dom = dom]
    /\ UNCHANGED <<now, storeVars, sendVars, shot, reset, changed, ops, lookup, optVars>>

\* The retry timer fires.
RetryFires ==
    /\ page.timer.set
    /\ page.timer.due = now
    /\ page' = tryInject(page, now)
    /\ UNCHANGED <<now, storeVars, sendVars, shot, reset, changed, ops, lookup, optVars>>

\* Time passes up to the pending retry, or to half way between its arming
\* and it.
PageTick ==
    /\ page.timer.set
    /\ now < page.timer.due
    /\ \E t \in {page.timer.due, (page.timer.armed + page.timer.due) \div 2} :
          /\ t > now
          /\ now' = t
    /\ UNCHANGED <<storeVars, sendVars, shot, extVars>>

(***************************************************************************)
(* Custom platform operations side by side.  addCustomPlatform and         *)
(* removeCustomPlatform await the read of the list and then the write of   *)
(* the new list; other calls run between the two.                          *)
(***************************************************************************)
\* No custom platform operation runs side by side with another.
NoRacers == <<>>

\* A call that has been made and awaits its read.
Racer(op, id) ==
    [op |-> op, id |-> id, pc |-> "reading", reads |-> "sync", platforms |-> <<>>,
     written |-> <<>>, failed |-> {}, settled |-> "pending"]

\* The ids generated by the calls made so far.
RacerIds == {racers[i].id : i \in {j \in 1..Len(racers) : racers[j].op = "add"}}

\* addCustomPlatform(NewPlatform) is called; it draws its id at once.
RacerAdds ==
    /\ Len(racers) < MaxRacers
    /\ \E suffix \in RandomSuffixes :
          /\ NewCustomId(now, suffix) \notin RacerIds
          /\ racers' = Append(racers, Racer("add", NewCustomId(now, suffix)))
    /\ UNCHANGED <<now, storeVars, sendVars, shot, reset, changed, ops, lookup, page,
                   fmt, options>>

\* removeCustomPlatform(id) is called.
RacerRemoves ==
    /\ Len(racers) < MaxRacers
    /\ \E id \in {CustomId, GoneId} :
          racers' = Append(racers, Racer("remove", id))
    /\ UNCHANGED <<now, storeVars, sendVars, shot, reset, changed, ops, lookup, page,
                   fmt, options>>

\* `await this.getCustomPlatforms()` of a call returns.
RacerReads ==
    /\ \E i \in 1..Len(racers), reads \in {"sync", "local", "none"} :
          /\ racers[i].pc = "reading"
          /\ racers' = [racers EXCEPT ![i].pc = "writing",
                                      ![i].reads = reads,
                                      ![i].platforms = getCustomPlatforms(reads)]
    /\ UNCHANGED <<now, storeVars, sendVars, shot, reset, changed, ops, lookup, page,
                   fmt, options>>

\* The list a call saves: the list it read with the new platform pushed, or
\* filtered.
RacerList(r) ==
    IF r.op = "add"
    THEN Append(r.platforms, Spread([id |-> r.id], NewPlatform))
    ELSE SelectSeq(r.platforms, LAMBDA p : p.id /= r.id)

\* `await this.saveCustomPlatforms(platforms)` of a call returns or throws.
RacerWrites ==
    /\ \E i \in 1..Len(racers), write \in {"sync", "local", "throws"} :
          LET save == saveCustomPlatforms(RacerList(racers[i]), write)
          IN  /\ racers[i].pc = "writing"
              /\ racers' = [racers EXCEPT ![i].pc = "done",
                                          ![i].written = RacerList(racers[i]),
                                          ![i].failed = save.failed,
                                          ![i].settled = save.settled]
              /\ syncStore' = save.sync
              /\ localStore' = save.local
    /\ UNCHANGED <<now, DEFAULT_SETTINGS, debounceTimer, saveTimers, nextTimerId,
                   saves, lastSaveAt, lastGet>>
    /\ UNCHANGED <<sendVars, shot, reset, changed, ops, lookup, page, fmt, options>>

(***************************************************************************)
(* The options page (OptionsManager): its settings object.                 *)
(***************************************************************************)
\* The page before init(): `private settings = DEFAULT_SETTINGS`.  `aliased`
\* says that this.settings is the DEFAULT_SETTINGS object itself; `settings`
\* is the object it is otherwise.
NoOptions == [loaded |-> FALSE, aliased |-> TRUE, settings |-> DefaultSettings0]

\* loadSettings(): this.settings = await storageManager.getSettings().  When
\* both reads reject getSettings returns DEFAULT_SETTINGS, not a copy.
LoadSettings ==
    /\ ~options.loaded
    /\ \E syncRejects \in BOOLEAN, localRejects \in BOOLEAN :
          /\ lastGet' = getSettings(syncRejects, localRejects)
          /\ options' = [loaded |-> TRUE,
                         aliased |-> syncRejects /\ localRejects,
                         settings |-> IF syncRejects /\ localRejects
                                      THEN DefaultSettings0
                                      ELSE lastGet'.value]
    /\ UNCHANGED <<now, DEFAULT_SETTINGS, syncStore, localStore, debounceTimer,
                   saveTimers, nextTimerId, saves, lastSaveAt>>
    /\ UNCHANGED <<sendVars, shot, reset, changed, ops, lookup, page, fmt, racers>>

\* What the form change handlers assign to a field of this.settings.
FormEdits ==
    {[autoSend |-> TRUE], [darkMode |-> TRUE], [maxTextLength |-> 4096],
     [defaultInstructions |-> "Summarize"]}

\* A form change handler runs.
FormEdit ==
    /\ options.loaded
    /\ \E edit \in FormEdits :
          IF options.aliased
          THEN /\ DEFAULT_SETTINGS' = Spread(DEFAULT_SETTINGS, edit)
               /\ UNCHANGED options
          ELSE /\ options' = [options EXCEPT !.settings = Spread(@, edit)]
               /\ UNCHANGED DEFAULT_SETTINGS
    /\ lastGet' = NoGet
    /\ UNCHANGED <<now, syncStore, localStore, debounceTimer, saveTimers, nextTimerId,
                   saves, lastSaveAt>>
    /\ UNCHANGED <<sendVars, shot, reset, changed, ops, lookup, page, fmt, racers>>

\* The settings of the files imported; every value has the type of its field.
ImportFiles ==
    {[autoSend |-> TRUE, maxTextLength |-> 500],
     [darkMode |-> TRUE, maxTextLength |-> 2000]}

\* importSettings: the file merged over the defaults, a maxTextLength out of
\* range replaced by the default.
importedSettings(file) ==
    LET merged == Spread(DEFAULT_SETTINGS, file)
    IN  [merged EXCEPT !.maxTextLength =
            IF @ < 1000 \/ @ > 16384 THEN DEFAULT_SETTINGS.maxTextLength ELSE @]

ImportSettings ==
    /\ options.loaded
    /\ \E file \in ImportFiles :
          options' = [options EXCEPT !.aliased = FALSE,
                                     !.settings = importedSettings(file)]
    /\ lastGet' = NoGet
    /\ UNCHANGED <<now, DEFAULT_SETTINGS, syncStore, localStore, debounceTimer,
                   saveTimers, nextTimerId, saves, lastSaveAt>>
    /\ UNCHANGED <<sendVars, shot, reset, changed, ops, lookup, page, fmt, racers>>

\* The reset button: storageManager.resetSettings(), of which `cleared` says
\* how many clear() calls succeeded, then this.settings = { ...DEFAULT_SETTINGS }.
OptionsReset ==
    /\ options.loaded
    /\ \E cleared \in 0..2 :
          /\ syncStore' = IF cleared >= 1 THEN StorageClear(syncStore) ELSE syncStore
          /\ localStore' = IF cleared = 2 THEN StorageClear(localStore) ELSE localStore
    /\ options' = [options EXCEPT !.aliased = FALSE, !.settings = DEFAULT_SETTINGS]
    /\ lastGet' = NoGet
    /\ UNCHANGED <<now, DEFAULT_SETTINGS, debounceTimer, saveTimers, nextTimerId,
                   saves, lastSaveAt>>
    /\ UNCHANGED <<sendVars, shot, reset, changed, ops, lookup, page, fmt, racers>>

(***************************************************************************)
(* Delivery orchestrator.                                                  *)
(***************************************************************************)
INJECT_DELAY == 3000

\* The clock of the delivery behaviours ticks twice per injection delay.
SendTickMs == INJECT_DELAY \div 2

\* An AIResult; a field the code leaves out is "undefined".
Result(success, method, error, platform) ==
    [success |-> success, method |-> method, error |-> error, platform |-> platform]

\* How an entry point ended: how its promise settled, the result it resolved
\* with, the capabilities it called, in order and with their outcomes, the
\* text it put on the clipboard (Empty: none), the tab creations that
\* succeeded with an id, whether it armed the injection timer, and whether
\* sendToAI was invoked.
Outcome(settled, result, effects, copied, inject) ==
    [settled |-> settled, result |-> result, effects |-> effects,
     copied |-> copied, inject |-> inject, sendToAICalled |-> TRUE]

NoResult == Result(FALSE, "undefined", "undefined", "undefined")

\* A copyToClipboard that throws when both ways of copying fail.
copyToClipboardThrows(clip) ==
    IF clip \in {"modern", "fallback"}
    THEN [threw |-> FALSE, success |-> TRUE]
    ELSE [threw |-> TRUE, success |-> FALSE]

\* copyToClipboard(text): the modern API, then the content-script fallback;
\* it reports a failure in its result and never throws.
copyToClipboard(clip) ==
    IF clip \in {"modern", "fallback"}
    THEN [threw |-> FALSE, success |-> TRUE]
    ELSE [threw |-> FALSE, success |-> FALSE]

\* An empty-message failure that is reported after the platform tab is opened.
EmptyMessageOutcomeAfterOpen(platform, clip) ==
    Outcome("resolved",
            Result(FALSE, "clipboard", "No message to send", platform.name),
            <<"base:ok">>, Empty, FALSE)

\* The formatted message is empty: fail before anything else is done.
EmptyMessageOutcome(platform, clip) ==
    Outcome("resolved",
            Result(FALSE, "clipboard", "No message to send", platform.name),
            <<>>, Empty, FALSE)

\* The manual path: open the platform's base URL, arm the injection timer
\* when the tab has an id, and return at once.
ManualPath(platform, formattedMessage, copy, effects, base) ==
    IF base = "throws"
    THEN Outcome("resolved",
                 Result(FALSE, "clipboard",
                        "Failed to open " \o platform.name \o " tab", platform.name),
                 effects \o <<"base:threw">>,
                 IF copy.success THEN formattedMessage ELSE Empty, FALSE)
    ELSE Outcome("resolved",
                 Result(TRUE, "clipboard", "undefined", platform.name),
                 IF base = "ok" THEN effects \o <<"base:ok", "setTimeout">>
                                ELSE effects \o <<"base:noid">>,
                 IF copy.success THEN formattedMessage ELSE Empty, base = "ok")

\* A deep-link failure that ends the delivery.
OnDeepLinkThrowsTerminal(platform, formattedMessage, copy, effects, base) ==
    Outcome("resolved",
            Result(FALSE, "clipboard",
                   "Failed to open " \o platform.name \o " tab", platform.name),
            effects \o <<"deeplink:threw">>,
            IF copy.success THEN formattedMessage ELSE Empty, FALSE)

\* catch (error) { console.warn('Deep link failed:', error) }: go on with the
\* manual path.
OnDeepLinkThrows(platform, formattedMessage, copy, effects, base) ==
    ManualPath(platform, formattedMessage, copy, effects \o <<"deeplink:threw">>, base)

\* A copy whose failure ends the delivery.
AfterCopyFatal(copy, rest) ==
    IF copy.threw
    THEN Outcome("rejected", NoResult, <<"copy:threw">>, Empty, FALSE)
    ELSE IF ~copy.success
    THEN Outcome("resolved",
                 Result(FALSE, "clipboard", "Failed to copy", "undefined"),
                 <<"copy:failed">>, Empty, FALSE)
    ELSE rest

\* The result of the copy is dropped: delivery goes on whatever it was.
AfterCopy(copy, rest) ==
    IF copy.threw
    THEN Outcome("rejected", NoResult, <<"copy:threw">>, Empty, FALSE)
    ELSE rest

\* The condition under which the deep link is tried.
DeepLinkWanted(autoSend, platformId, platform) == autoSend /\ platformId = "chatgpt"

\* sendToAI(message, autoSend, platformId) under the capability outcomes env.
\* The default parameters have been applied: autoSend is a boolean and
\* platformId a string.
sendToAI(message, autoSend, platformId, env) ==
    LET platform == getPlatform(platformId, env.reads)
        formattedMessage == formatMessageForClipboard(message)
    IN  IF Trim(formattedMessage) = Empty
        THEN EmptyMessageOutcome(platform, env.clip)
        ELSE
          LET copy == copyToClipboard(env.clip)
              copied == <<IF copy.success THEN "copy:ok" ELSE "copy:failed">>
          IN  AfterCopy(copy,
                IF /\ DeepLinkWanted(autoSend, platformId, platform)
                   /\ buildChatGPTUrlLen(message) <= URL_SIZE_LIMIT
                THEN IF env.deep = "ok"
                     THEN Outcome("resolved",
                                  Result(TRUE, "deeplink", "undefined", platform.name),
                                  copied \o <<"deeplink:ok">>,
                                  IF copy.success THEN formattedMessage ELSE Empty,
                                  FALSE)
                     ELSE OnDeepLinkThrows(platform, formattedMessage, copy, copied,
                                           env.base)
                ELSE ManualPath(platform, formattedMessage, copy, copied, env.base))

\* function f(autoSend: boolean = true): the default applies to undefined.
DefaultTrue(arg) == IF arg = "undefined" THEN TRUE ELSE arg = "true"
\* function f(platformId: string = 'chatgpt') and data.platform || 'chatgpt'
DefaultChatGPT(arg) == IF arg = "undefined" THEN "chatgpt" ELSE arg

\* What a background handler returns without calling sendToAI.
HandlerReturns(error) ==
    [settled |-> "resolved",
     result |-> Result(FALSE, "undefined", error, "undefined"),
     effects |-> <<>>, copied |-> Empty, inject |-> FALSE, sendToAICalled |-> FALSE]

\* catch (error) { return { success: false, error: error.message } }
HandlerCatches(outcome) ==
    IF outcome.settled = "rejected"
    THEN [outcome EXCEPT !.settled = "resolved",
                         !.result = Result(FALSE, "undefined", "Unknown error",
                                           "undefined")]
    ELSE outcome

\* A gate that lets every message through.
ValidationGateOpen(validation, delivery) == delivery

\* The gate of the handlers: an invalid message is answered, a valid one is
\* handed to sendToAI.
ValidationGate(validation, delivery) ==
    IF ~validation.valid THEN HandlerReturns(validation.error) ELSE delivery

\* handleSendToAI(data) and, with platform fixed to 'chatgpt',
\* handleSendToChatGPT(data).  data.message may be missing, in which case
\* validateMessage throws a TypeError that the handler catches.
handleSend(data, platformId, env) ==
    IF ~data.hasMessage
    THEN HandlerReturns("TypeError")
    ELSE HandlerCatches(
            ValidationGate(validateMessage(data.message),
                           sendToAI(data.message, DefaultTrue(data.autoSend),
                                    platformId, env)))

\* The strings the behaviours deliver.
Letters(n) == <<Run("al", n)>>
Hello == Letters(5)
DoX == <<Run("al", 2), Run("sp", 1), Run("al", 1)>>

Message(text, instructions, model) ==
    [text |-> text, instructions |-> instructions, model |-> model]

EmptyMessage == Message(Str(Empty), Str(Empty), "undefined")
BlankMessage == Message(Str(<<Run("sp", 2)>>), Undefined, "gpt-4o")
\* The README example.
HelloMessage == Message(Str(Hello), Str(DoX), "gpt-4o")
\* Texts whose deep link is 1800, 1801 and 2200 characters long, and one whose
\* deep link is 1801 characters long only because of its model parameter.
LinkMessages ==
    {Message(Str(Letters(1753)), Str(Empty), "gpt-4o"),
     Message(Str(Letters(1754)), Str(Empty), "gpt-4o"),
     Message(Str(Letters(2153)), Str(Empty), "undefined"),
     Message(Str(Letters(1742)), Str(Empty), "gpt-4")}
\* A text whose formatted message is 16385 characters long.
LongMessage == Message(Str(Letters(16377)), Str(Empty), "gpt-4o")

PlatformArgs == {"undefined", "chatgpt", "claude", CustomId, GoneId}

Request(message, autoSend, platform) ==
    [message |-> message, autoSend |-> autoSend, platform |-> platform]

\* The requests the callers make: the example message with auto-send on and
\* off on every platform and with the flag left out on ChatGPT, the messages
\* near the deep-link limit with auto-send on ChatGPT, and the empty and the
\* oversized messages.
Requests ==
    {Request(HelloMessage, a, p) : a \in {"true", "false"}, p \in PlatformArgs}
    \cup {Request(HelloMessage, "undefined", p) : p \in {"undefined", "chatgpt"}}
    \cup {Request(m, "true", "chatgpt") : m \in LinkMessages}
    \cup {Request(m, "true", p) : m \in {EmptyMessage, BlankMessage},
                                  p \in {"chatgpt", GoneId}}
    \cup {Request(LongMessage, a, "claude") : a \in {"true", "false"}}

\* The outcomes of the capabilities a delivery calls: which backend answers
\* the custom platform read, how the clipboard copy goes, and how the two tab
\* creations go.  A capability that is not called is taken to work.
Envs(message, autoSend, platformId) ==
    LET empty == Trim(formatMessageForClipboard(message)) = Empty
        deepTried == /\ ~empty
                     /\ autoSend
                     /\ platformId = "chatgpt"
                     /\ buildChatGPTUrlLen(message) <= URL_SIZE_LIMIT
    IN  {env \in [reads : {"sync", "local", "none"},
                  clip : {"modern", "fallback", "denied"},
                  deep : {"ok", "throws"},
                  base : {"ok", "noid", "throws"}] :
            /\ platformId /= CustomId => env.reads = "sync"
            /\ env.reads /= "sync" => env.clip /= "fallback"
            /\ empty => env.clip = "modern" /\ env.base = "ok"
            /\ ~deepTried => env.deep = "ok"
            /\ (deepTried /\ env.deep = "ok") => env.base = "ok"}

\* The record of a delivery request and of how it ended.
SendRecord(entry, hasMessage, message, autoSend, platform, env, outcome) ==
    [call |-> sends + 1, entry |-> entry, at |-> now, hasMessage |-> hasMessage,
     message |-> message, autoSend |-> autoSend, platform |-> platform,
     env |-> env, outcome |-> outcome]

\* An injection that is due as soon as it is armed.
InjectionDueImmediately(t) == t

\* When the injection armed at time t is due.
InjectionDue(t) == t + INJECT_DELAY

\* The effects of a delivery on the browser: the clipboard, the tabs, the
\* injection timer.
Deliver(entry, hasMessage, message, autoSend, platform, env, outcome) ==
    LET opened == IF \E i \in 1..Len(outcome.effects) :
                        outcome.effects[i] \in {"deeplink:ok", "base:ok"}
                  THEN {nextTabId} ELSE {}
    IN  /\ sends' = sends + 1
        /\ lastSend' = SendRecord(entry, hasMessage, message, autoSend, platform,
                                  env, outcome)
        /\ clipboard' = IF outcome.copied /= Empty THEN outcome.copied ELSE clipboard
        /\ openTabs' = openTabs \cup opened
        /\ nextTabId' = nextTabId + Cardinality(opened)
        /\ injectTimers' =
              IF outcome.inject
              THEN injectTimers \cup {[due |-> InjectionDue(now), armed |-> now,
                                       call |-> sends + 1, tab |-> nextTabId]}
              ELSE injectTimers
        /\ UNCHANGED <<now, injections, storeVars, shot, extVars>>

\* A direct call of the exported sendToAI.
SendToAI ==
    /\ NoTimerDue
    /\ shot.pc = "idle"
    /\ sends < MaxSends
    /\ \E r \in Requests :
          \E env \in Envs(r.message, DefaultTrue(r.autoSend),
                          DefaultChatGPT(r.platform)) :
              Deliver("sendToAI", TRUE, r.message, r.autoSend, r.platform, env,
                      sendToAI(r.message, DefaultTrue(r.autoSend),
                               DefaultChatGPT(r.platform), env))

\* The payloads of the SEND_TO_AI and SEND_TO_CHATGPT runtime messages.
HandlerData(hasMessage, message, autoSend, platform) ==
    [hasMessage |-> hasMessage, message |-> message, autoSend |-> autoSend,
     platform |-> platform]

\* A payload without a message.
NoMessageRequest == Request(EmptyMessage, "true", "chatgpt")

HandleSendToAI ==
    /\ NoTimerDue
    /\ shot.pc = "idle"
    /\ sends < MaxSends
    /\ \E hasMessage \in BOOLEAN :
        \E r \in IF hasMessage THEN Requests ELSE {NoMessageRequest} :
          \E env \in Envs(r.message, DefaultTrue(r.autoSend),
                          DefaultChatGPT(r.platform)) :
              Deliver("handleSendToAI", hasMessage, r.message, r.autoSend,
                      r.platform, env,
                      handleSend(HandlerData(hasMessage, r.message, r.autoSend,
                                             r.platform),
                                 DefaultChatGPT(r.platform), env))

\* handleSendToChatGPT passes 'chatgpt' whatever data.platform is.
HandleSendToChatGPT ==
    /\ NoTimerDue
    /\ shot.pc = "idle"
    /\ sends < MaxSends
    /\ \E hasMessage \in BOOLEAN :
        \E r \in IF hasMessage THEN {q \in Requests : q.platform = "chatgpt"}
                                ELSE {NoMessageRequest} :
          \E env \in Envs(r.message, DefaultTrue(r.autoSend), "chatgpt") :
              Deliver("handleSendToChatGPT", hasMessage, r.message, r.autoSend,
                      r.platform, env,
                      handleSend(HandlerData(hasMessage, r.message, r.autoSend,
                                             r.platform),
                                 "chatgpt", env))

\* injectTextIntoPlatform(tabId, platform, text): executeScript throws when
\* the tab is gone or the page refuses scripts; the function catches that and
\* returns false.
injectTextIntoPlatform(scriptThrows) ==
    [threw |-> FALSE, returned |-> ~scriptThrows]

\* The deferred callback: await the injection, warn when it throws.
InjectionCallback(t, scriptThrows) ==
    LET r == injectTextIntoPlatform(scriptThrows)
    IN  [call |-> t.call, armed |-> t.armed, at |-> now, tab |-> t.tab,
         injected |-> r.returned, escaped |-> FALSE]

InjectionFires ==
    \E t \in injectTimers, scriptThrows \in BOOLEAN :
        /\ t.due <= now
        /\ t.tab \notin openTabs => scriptThrows
        /\ injectTimers' = injectTimers \ {t}
        /\ injections' = Append(injections, InjectionCallback(t, scriptThrows))
        /\ UNCHANGED <<now, sends, lastSend, openTabs, nextTabId, clipboard,
                       storeVars, shot, extVars>>

\* The user closes a tab.
CloseTab ==
    \E tab \in openTabs :
        /\ NoTimerDue
        /\ openTabs' = openTabs \ {tab}
        /\ UNCHANGED <<now, sends, lastSend, injectTimers, injections, nextTabId,
                       clipboard, storeVars, shot, extVars>>

\* Time passes in the delivery behaviours: by one tick, or up to the next timer.
SendTick ==
    /\ NoTimerDue
    /\ shot.pc = "idle"
    /\ injectTimers = {} => now < MaxSendTicks * SendTickMs
    /\ now' = MinDue(injectTimers, now + SendTickMs)
    /\ UNCHANGED <<sendVars, storeVars, shot, extVars>>

(***************************************************************************)
(* Screenshot delivery (handleScreenshotMode).  It shares no program state *)
(* with sendToAI, so a behaviour runs one delivery or the other.           *)
(***************************************************************************)
POLL_INTERVAL == 500
TAB_LOAD_TIMEOUT == 10000

\* The clipboard content after an image write.
Screenshot == <<Run("im", 1)>>

ManualUploadWarning ==
    "Platform opened but clipboard copy may have failed - try manual upload"

\* The message of the error chrome.tabs.create rejects with.
CreateError == "tabs.create rejected"

ScreenshotResult(success, error, platform) ==
    [success |-> success, error |-> error, platform |-> platform]

\* The final return of handleScreenshotMode.
ScreenshotReturn(platformName, clipboardSuccess) ==
    ScreenshotResult(TRUE,
                     IF clipboardSuccess THEN "undefined" ELSE ManualUploadWarning,
                     platformName)

\* handleScreenshotMode has returned `result`.
ShotDone(s, result) ==
    [s EXCEPT !.pc = "done", !.settled = "resolved", !.result = result]

\* What the collaborators of one screenshot delivery do: the capture, the
\* clipboard write in the current page, the storage reads of getPlatform and
\* chrome.tabs.create.
ShotEnvs(platformId) ==
    {env \in [capture : {"ok", "fails"}, first : BOOLEAN,
              reads : {"sync", "local", "none"},
              create : {"ok", "noid", "throws"}] :
        /\ platformId /= CustomId => env.reads = "sync"
        /\ env.capture = "fails" =>
              env.first /\ env.reads = "sync" /\ env.create = "ok"}

\* handleScreenshotMode up to its return or to the tab-load wait: capture,
\* copy in the current page, resolve the platform, open its tab, and start
\* waitForTabToLoad (the first checkTab, the 10 s timer) when the copy failed
\* and the tab has an id.
handleScreenshotMode(platformId, env) ==
    LET platform == getPlatform(platformId, env.reads)
        started  == [ShotIdle EXCEPT !.platform = platformId]
        copied   == [started EXCEPT !.clipboardSuccess = env.first,
                                    !.firstCopy = env.first,
                                    !.platformName = platform.name]
        opened   == [copied EXCEPT !.created = 1,
                                   !.tab = IF env.create = "ok"
                                           THEN nextTabId ELSE 0,
                                   !.tabStatus = "loading"]
    IN  IF env.capture = "fails"
        THEN ShotDone(started,
                      ScreenshotResult(FALSE, "Failed to capture screenshot",
                                       "undefined"))
        ELSE IF env.create = "throws"
        THEN ShotDone(copied, ScreenshotResult(FALSE, CreateError, "undefined"))
        ELSE IF ~env.first /\ env.create = "ok"
        THEN [opened EXCEPT !.pc = "waiting", !.waitStart = now,
                            !.pollDue = now,
                            !.timeoutDue = now + TAB_LOAD_TIMEOUT]
        ELSE ShotDone(opened, ScreenshotReturn(platform.name, env.first))

HandleScreenshotMode ==
    /\ NoTimerDue
    /\ shot.pc = "idle"
    /\ sends = 0
    /\ \E platformId \in PlatformArgs :
        \E env \in ShotEnvs(DefaultChatGPT(platformId)) :
            /\ shot' = handleScreenshotMode(DefaultChatGPT(platformId), env)
            /\ clipboard' = IF env.capture = "ok" /\ env.first
                            THEN Screenshot ELSE clipboard
            /\ openTabs' = IF shot'.created = 1
                           THEN openTabs \cup {nextTabId} ELSE openTabs
            /\ nextTabId' = nextTabId + shot'.created
    /\ UNCHANGED <<now, sends, lastSend, injectTimers, injections, storeVars, extVars>>

\* resolve() of the waitForTabToLoad promise: the first call ends the wait and
\* handleScreenshotMode goes on to the copy in the platform tab.
ResolveWait(s) ==
    IF s.waitResolved THEN s
    ELSE [s EXCEPT !.waitResolved = TRUE, !.waitEnd = now,
                   !.pc = IF @ = "waiting" THEN "retrying" ELSE @]

\* A checkTab that polls on after chrome.tabs.get rejects.
checkTabPollsOn(s) ==
    LET counted == [s EXCEPT !.polls = @ + 1,
                             !.latePolls = IF s.waitResolved THEN @ + 1 ELSE @]
    IN  IF s.tab \in openTabs /\ s.tabStatus = "complete"
        THEN ResolveWait([counted EXCEPT !.pollDue = -1])
        ELSE [counted EXCEPT !.pollDue = now + POLL_INTERVAL]

\* checkTab: chrome.tabs.get rejects for a closed tab.
checkTab(s) ==
    LET counted == [s EXCEPT !.polls = @ + 1,
                             !.latePolls = IF s.waitResolved THEN @ + 1 ELSE @]
    IN  IF s.tab \notin openTabs \/ s.tabStatus = "complete"
        THEN ResolveWait([counted EXCEPT !.pollDue = -1])
        ELSE [counted EXCEPT !.pollDue = now + POLL_INTERVAL]

CheckTabFires ==
    /\ shot.pollDue /= -1
    /\ shot.pollDue <= now
    /\ shot' = checkTab(shot)
    /\ UNCHANGED <<now, sendVars, storeVars, extVars>>

\* The fallback timer of waitForTabToLoad.
WaitTimeoutFires ==
    /\ shot.timeoutDue /= -1
    /\ shot.timeoutDue <= now
    /\ shot' = ResolveWait([shot EXCEPT !.timeoutDue = -1])
    /\ UNCHANGED <<now, sendVars, storeVars, extVars>>

\* copyImageToClipboardInPlatformTab returns false when executeScript throws
\* (a closed tab) or the page's clipboard write fails.
copyImageToClipboardInPlatformTab(s, writes) ==
    writes /\ s.tab \in openTabs

\* A rest of handleScreenshotMode that reports no warning.
AfterWaitNoWarning(s, writes) ==
    ShotDone([s EXCEPT !.retries = @ + 1,
                       !.clipboardSuccess = copyImageToClipboardInPlatformTab(s, writes)],
             ScreenshotReturn(s.platformName, TRUE))

\* The rest of handleScreenshotMode after the wait.
AfterWait(s, writes) ==
    LET platformClipboardSuccess == copyImageToClipboardInPlatformTab(s, writes)
        clipboardSuccess == s.clipboardSuccess \/ platformClipboardSuccess
    IN  ShotDone([s EXCEPT !.retries = @ + 1,
                           !.clipboardSuccess = clipboardSuccess],
                 ScreenshotReturn(s.platformName, clipboardSuccess))

CopyInPlatformTab ==
    /\ shot.pc = "retrying"
    /\ \E writes \in BOOLEAN :
          /\ shot' = AfterWait(shot, writes)
          /\ clipboard' = IF copyImageToClipboardInPlatformTab(shot, writes)
                          THEN Screenshot ELSE clipboard
    /\ UNCHANGED <<now, sends, lastSend, injectTimers, injections, openTabs,
                   nextTabId, storeVars, extVars>>

\* The platform tab finishes loading.
TabLoads ==
    /\ NoTimerDue
    /\ shot.tab \in openTabs
    /\ shot.tabStatus = "loading"
    /\ shot' = [shot EXCEPT !.tabStatus = "complete"]
    /\ UNCHANGED <<now, sendVars, storeVars, extVars>>

\* The timers of the screenshot delivery that are armed.
ShotDues == {shot.pollDue, shot.timeoutDue} \ {-1}

\* Time passes up to the next timer of the screenshot delivery.
ShotTick ==
    /\ NoTimerDue
    /\ shot.pc /= "idle"
    /\ ShotDues /= {}
    /\ shot.latePolls < MaxLatePolls
    /\ now' = CHOOSE d \in ShotDues : \A e \in ShotDues : d <= e
    /\ UNCHANGED <<sendVars, storeVars, shot, extVars>>

(***************************************************************************)
(* The state after the modules are loaded.                                 *)
(***************************************************************************)
NoSend == [call |-> 0, entry |-> "none"]

\* Everything but the message handed to the formatter.
Loaded ==
    /\ now = 0
    /\ DEFAULT_SETTINGS = DefaultSettings0
    /\ \E stores \in InitialStores :
          /\ syncStore = stores[1]
          /\ localStore = stores[2]
    /\ debounceTimer = 0
    /\ saveTimers = {}
    /\ nextTimerId = 1
    /\ saves = <<>>
    /\ lastSaveAt = -1
    /\ lastGet = NoGet
    /\ sends = 0
    /\ lastSend = NoSend
    /\ injectTimers = {}
    /\ injections = <<>>
    /\ openTabs = {}
    /\ nextTabId = 1
    /\ clipboard = Empty
    /\ shot = ShotIdle
    /\ reset = NoReset
    /\ changed = NoChange
    /\ ops = NoOp
    /\ lookup = NoLookup
    /\ page = NoPage
    /\ racers = NoRacers
    /\ options = NoOptions

Init == Loaded /\ fmt = NoMessage

NextStore ==
    \/ SaveSettings
    \/ SaveTimerFires
    \/ SyncSetSettles
    \/ LocalSetSettles
    \/ GetSettings
    \/ StoreTick

SpecStore == Init /\ [][NextStore]_vars

NextReset ==
    \/ SaveBeforeReset
    \/ SaveTimerFires
    \/ SyncSetSettles
    \/ LocalSetSettles
    \/ ResetSettings
    \/ SyncClearSettles
    \/ LocalClearSettles
    \/ GetSettings
    \/ StoreTick

\* The reset behaviours start with settings stored in both backends.
InitReset ==
    /\ Init
    /\ "darkMode" \in DOMAIN syncStore
    /\ "autoSend" \in DOMAIN localStore

SpecReset == InitReset /\ [][NextReset]_vars

NextChanged ==
    \/ OnSettingsChanged
    \/ StorageChanged

SpecChanged == InitReset /\ [][NextChanged]_vars

NextPlatforms ==
    \/ AddCustomPlatform
    \/ RemoveCustomPlatform
    \/ UpdateCustomPlatform
    \/ PlatformTick

SpecPlatforms == InitReset /\ [][NextPlatforms]_vars

\* Platforms are looked up between removals and updates of custom platforms.
NextLookup ==
    \/ RemoveCustomPlatform
    \/ UpdateCustomPlatform
    \/ ResolvePlatform

SpecLookup == InitReset /\ [][NextLookup]_vars

NextInject ==
    \/ InjectTextIntoPlatform
    \/ DomChanges
    \/ RetryFires
    \/ PageTick

SpecInject == InitReset /\ [][NextInject]_vars

NextRace ==
    \/ RacerAdds
    \/ RacerRemoves
    \/ RacerReads
    \/ RacerWrites

SpecRace == InitReset /\ [][NextRace]_vars

NextOptions ==
    \/ LoadSettings
    \/ FormEdit
    \/ ImportSettings
    \/ OptionsReset
    \/ GetSettings

SpecOptions == InitReset /\ [][NextOptions]_vars

\* The formatter and the validator are applied to a message.
InitFormat ==
    /\ Loaded
    /\ "darkMode" \in DOMAIN syncStore
    /\ "autoSend" \in DOMAIN localStore
    /\ fmt \in {[NoMessage EXCEPT !.message = m] : m \in FormatMessages}

NextFormat ==
    \/ FormatMessage
    \/ ValidateMessage

SpecFormat == InitFormat /\ [][NextFormat]_vars

NextSend ==
    \/ SendToAI
    \/ HandleSendToAI
    \/ HandleSendToChatGPT
    \/ InjectionFires
    \/ CloseTab
    \/ SendTick
    \/ HandleScreenshotMode
    \/ CheckTabFires
    \/ WaitTimeoutFires
    \/ CopyInPlatformTab
    \/ TabLoads
    \/ ShotTick

\* The delivery behaviours start with a custom platform in synchronized storage.
InitSend ==
    /\ Init
    /\ "customPlatforms" \in DOMAIN syncStore

SpecSend == InitSend /\ [][NextSend]_vars

(***************************************************************************)
(* Properties of the settings store.                                       *)
(***************************************************************************)

\* C1: saveSettings calls that each arrive less than DEBOUNCE_DELAY ms after
\* the previous one lead to exactly one backend write once the window has
\* elapsed: a call followed within the window never issues a write, the last
\* call of the run issues exactly one chrome.storage.sync.set, and every
\* write a call issues (the sync one and its local fallback) carries exactly
\* that call's own patch, with nothing of the earlier patches merged in.
C1_DebounceLastPatchOnce ==
    \A c \in 1..Len(saves) :
        LET r == saves[c] IN
        /\ Len(r.syncSets) <= 1
        /\ Len(r.localSets) <= 1
        /\ \A i \in 1..Len(r.syncSets) : r.syncSets[i] = r.settings
        /\ \A i \in 1..Len(r.localSets) : r.localSets[i] = r.settings
        /\ r.superseded => r.syncSets = <<>> /\ r.localSets = <<>>
        /\ (~r.superseded /\ (c < Len(saves) \/ now > lastSaveAt + DEBOUNCE_DELAY))
              => Len(r.syncSets) = 1

\* Two calls with patches on different keys fell into one window, the window
\* has elapsed, and the one write that was issued stored the second patch.
C1_Witness ==
    \E c \in 2..Len(saves) :
        /\ saves[c - 1].superseded
        /\ ~saves[c].superseded
        /\ DOMAIN saves[c - 1].settings \cap DOMAIN saves[c].settings = {}
        /\ saves[c - 1].syncSets = <<>>
        /\ saves[c].syncSets = <<saves[c].settings>>
        /\ saves[c].sync = "ok"
        /\ now >= lastSaveAt + DEBOUNCE_DELAY

\* C2: getSettings never fails and returns every key of DEFAULT_SETTINGS.  It
\* reads the synchronized backend first and the local one exactly when the
\* synchronized read rejected; the value is the defaults overridden key by key
\* by what the answering backend has stored, and the defaults themselves when
\* both reads rejected.
C2_GetSettingsTotal ==
    lastGet.called =>
        /\ lastGet.settled = "resolved"
        /\ DOMAIN DEFAULT_SETTINGS \subseteq DOMAIN lastGet.value
        /\ lastGet.reads = IF lastGet.syncRejected THEN <<"sync", "local">>
                                                   ELSE <<"sync">>
        /\ LET answer == IF ~lastGet.syncRejected THEN syncStore
                         ELSE IF ~lastGet.localRejected THEN localStore
                         ELSE EmptyStore
           IN  \A k \in DOMAIN DEFAULT_SETTINGS :
                  lastGet.value[k] = IF k \in DOMAIN answer THEN answer[k]
                                                           ELSE DEFAULT_SETTINGS[k]

\* The synchronized read rejected and the local backend, holding only
\* autoSend, answered: the result is the defaults with autoSend overridden,
\* and nothing of what the synchronized backend holds.
C2_Witness ==
    /\ lastGet.called
    /\ lastGet.syncRejected /\ ~lastGet.localRejected
    /\ "darkMode" \in DOMAIN syncStore
    /\ DOMAIN localStore = {"autoSend"}
    /\ localStore.autoSend /= DEFAULT_SETTINGS.autoSend
    /\ lastGet.value = [DEFAULT_SETTINGS EXCEPT !.autoSend = localStore.autoSend]

\* C3: a saveSettings write goes to the synchronized backend first and to the
\* local backend only after the synchronized write failed; when the
\* synchronized write succeeded the local backend is not written; the promise
\* of the call is never rejected, and it is resolved once the synchronized
\* write succeeded or the local write settled, also when both writes failed.
C3_SaveFallsBackAndNeverThrows ==
    \A c \in 1..Len(saves) :
        LET r == saves[c] IN
        /\ r.promise \in {"pending", "resolved"}
        /\ (r.local /= "none" \/ r.localSets /= <<>>) => r.sync = "failed"
        /\ r.sync = "ok" => r.promise = "resolved" /\ r.local = "none"
        /\ (r.sync = "failed" /\ r.local \in {"ok", "failed"}) => r.promise = "resolved"
        /\ r.sync \in {"none", "inflight"} => r.promise = "pending"

\* Both writes of a call failed and its promise is resolved.
C3_Witness ==
    \E c \in 1..Len(saves) :
        /\ saves[c].sync = "failed"
        /\ saves[c].local = "failed"
        /\ saves[c].promise = "resolved"

\* C4: for a message that is not empty, sendToAI returns success with method
\* 'deeplink' exactly when autoSend is true, the platform that getPlatform
\* resolved is chatgpt, the deep-link URL is at most URL_SIZE_LIMIT characters
\* long and opening the deep-link tab succeeds; in every other case the method
\* is 'clipboard'.
C4_DeepLinkWhenResolvedPlatformIsChatGPT ==
    (/\ lastSend.entry /= "none"
     /\ lastSend.outcome.sendToAICalled
     /\ Trim(formatMessageForClipboard(lastSend.message)) /= Empty) =>
        LET r == lastSend.outcome.result
            platformId == IF lastSend.entry = "handleSendToChatGPT"
                          THEN "chatgpt" ELSE DefaultChatGPT(lastSend.platform)
            resolved == getPlatform(platformId, lastSend.env.reads)
            claimed == /\ DefaultTrue(lastSend.autoSend)
                       /\ resolved.id = "chatgpt"
                       /\ buildChatGPTUrlLen(lastSend.message) <= URL_SIZE_LIMIT
                       /\ lastSend.env.deep = "ok"
        IN  /\ (r.success /\ r.method = "deeplink") <=> claimed
            /\ ~claimed => r.method = "clipboard"

\* C5: when opening the deep-link tab throws, sendToAI goes on to open the
\* platform's base URL and returns success with method 'clipboard' if that
\* open succeeds; the result of a non-empty message is a failure (method
\* 'clipboard', error "Failed to open <platform name> tab") exactly when the
\* base-URL tab could not be opened.
C5_DeepLinkFailureFallsThrough ==
    (/\ lastSend.entry /= "none"
     /\ lastSend.outcome.sendToAICalled
     /\ Trim(formatMessageForClipboard(lastSend.message)) /= Empty) =>
        LET o == lastSend.outcome
            r == o.result
            env == lastSend.env
            Did(e) == \E i \in 1..Len(o.effects) : o.effects[i] = e
        IN  /\ env.deep = "throws" <=> Did("deeplink:threw")
            /\ Did("deeplink:threw") =>
                  /\ Did("base:ok") \/ Did("base:noid") \/ Did("base:threw")
                  /\ env.base /= "throws" =>
                        r = Result(TRUE, "clipboard", "undefined", r.platform)
            /\ ~r.success <=> Did("base:threw")
            /\ Did("base:threw") <=> env.base = "throws"
            /\ ~r.success =>
                  /\ r.method = "clipboard"
                  /\ r.error = "Failed to open " \o r.platform \o " tab"
                  /\ r.platform \in {AI_PLATFORMS[k].name : k \in DOMAIN AI_PLATFORMS}
                                       \cup {Custom1.name}

\* The deep-link tab could not be opened, the base-URL tab could, and the
\* result is a success with method 'clipboard'.
C5_Witness ==
    /\ lastSend.entry = "sendToAI"
    /\ lastSend.env.deep = "throws"
    /\ lastSend.env.base = "ok"
    /\ lastSend.outcome.effects = <<"copy:ok", "deeplink:threw", "base:ok", "setTimeout">>
    /\ lastSend.outcome.result = Result(TRUE, "clipboard", "undefined", "ChatGPT")
    /\ openTabs /= {}

\* C6: a sendToAI call whose formatted message trims to empty resolves with
\* {success: false, method: 'clipboard', error: "No message to send"} and
\* calls no capability: the clipboard, the tabs and the injection timers are
\* as they were before the call.
C6_EmptyMessageFailsWithoutSideEffects ==
    [][(/\ lastSend'.call /= lastSend.call
        /\ lastSend'.outcome.sendToAICalled
        /\ Trim(formatMessageForClipboard(lastSend'.message)) = Empty) =>
            /\ lastSend'.outcome.settled = "resolved"
            /\ lastSend'.outcome.result.success = FALSE
            /\ lastSend'.outcome.result.method = "clipboard"
            /\ lastSend'.outcome.result.error = "No message to send"
            /\ lastSend'.outcome.effects = <<>>
            /\ UNCHANGED <<clipboard, openTabs, nextTabId, injectTimers,
                           injections>>]_vars

\* sendToAI was called with a text of two spaces and failed; nothing was
\* copied, opened or scheduled.
C6_Witness ==
    /\ lastSend.entry = "sendToAI"
    /\ lastSend.message = BlankMessage
    /\ lastSend.outcome.result =
          Result(FALSE, "clipboard", "No message to send", "ChatGPT")
    /\ clipboard = Empty
    /\ openTabs = {}
    /\ injectTimers = {}

\* C7: when validateMessage reports the message of a SEND_TO_AI or
\* SEND_TO_CHATGPT request invalid, the handler returns {success: false,
\* error} with the validator's error, sendToAI is not invoked, and the
\* clipboard, the tabs and the injection timers are as they were.
C7_ValidationIsTheGate ==
    [][(/\ lastSend'.call /= lastSend.call
        /\ lastSend'.entry \in {"handleSendToAI", "handleSendToChatGPT"}
        /\ lastSend'.hasMessage
        /\ ~validateMessage(lastSend'.message).valid) =>
            /\ lastSend'.outcome.settled = "resolved"
            /\ lastSend'.outcome.result =
                  Result(FALSE, "undefined",
                         validateMessage(lastSend'.message).error, "undefined")
            /\ ~lastSend'.outcome.sendToAICalled
            /\ lastSend'.outcome.effects = <<>>
            /\ UNCHANGED <<clipboard, openTabs, nextTabId, injectTimers,
                           injections>>]_vars

\* handleSendToAI answered an oversized message with the validator's error and
\* delivered nothing.
C7_Witness ==
    /\ lastSend.entry = "handleSendToAI"
    /\ lastSend.message = LongMessage
    /\ StrLen(formatMessageForClipboard(lastSend.message)) = MAX_MESSAGE_LENGTH + 1
    /\ lastSend.outcome.result.error =
          "Message too long. Please shorten your text or instructions."
    /\ ~lastSend.outcome.sendToAICalled
    /\ clipboard = Empty
    /\ openTabs = {}
    /\ injectTimers = {}

\* C8: on the manual path with a tab id, sendToAI has returned success with
\* method 'clipboard' at the time of the call, with the injection armed for
\* INJECT_DELAY later; the injection runs no earlier than that, nothing
\* escapes from it whether it injected or failed, and the record of the
\* returned result never changes afterwards.
C8_InjectionIsFireAndForget ==
    [][/\ (lastSend'.entry /= "none" /\ lastSend'.outcome.inject) =>
            /\ lastSend'.outcome.settled = "resolved"
            /\ lastSend'.outcome.result.success
            /\ lastSend'.outcome.result.method = "clipboard"
            /\ lastSend'.outcome.result.error = "undefined"
            /\ \/ \E t \in injectTimers' :
                     /\ t.call = lastSend'.call
                     /\ t.due = lastSend'.at + INJECT_DELAY
               \/ \E i \in 1..Len(injections') :
                     injections'[i].call = lastSend'.call
       /\ \A t \in injectTimers' : t.due = t.armed + INJECT_DELAY
       /\ \A i \in 1..Len(injections') :
            /\ ~injections'[i].escaped
            /\ injections'[i].at >= injections'[i].armed + INJECT_DELAY
            /\ injections'[i].call = lastSend'.call =>
                  /\ lastSend'.outcome.inject
                  /\ injections'[i].armed = lastSend'.at
       /\ Len(injections') > Len(injections) => lastSend' = lastSend
       /\ lastSend'.call = lastSend.call => lastSend' = lastSend]_vars

\* The injection of a successful manual delivery ran INJECT_DELAY after the
\* call, found its tab closed and failed; the returned result is unchanged.
C8_Witness ==
    /\ lastSend.entry = "sendToAI"
    /\ lastSend.outcome.inject
    /\ lastSend.outcome.result = Result(TRUE, "clipboard", "undefined", "Claude")
    /\ \E i \in 1..Len(injections) :
          /\ injections[i].call = lastSend.call
          /\ injections[i].at = lastSend.at + INJECT_DELAY
          /\ injections[i].tab \notin openTabs
          /\ ~injections[i].injected
          /\ ~injections[i].escaped

\* C9: for a non-empty formatted message the first capability sendToAI calls
\* is the clipboard copy, once, on the deep-link path as on the manual path,
\* and before any tab is opened; when the copy fails the result is the one the
\* same call returns when the copy succeeds.
C9_CopyFirstAndNeverFatal ==
    (/\ lastSend.entry /= "none"
     /\ lastSend.outcome.sendToAICalled
     /\ Trim(formatMessageForClipboard(lastSend.message)) /= Empty) =>
        LET o == lastSend.outcome
            platformId == IF lastSend.entry = "handleSendToChatGPT"
                          THEN "chatgpt" ELSE DefaultChatGPT(lastSend.platform)
            copyWorks == [lastSend.env EXCEPT !.clip = "modern"]
        IN  /\ Len(o.effects) >= 2
            /\ o.effects[1] =
                  IF lastSend.env.clip = "denied" THEN "copy:failed" ELSE "copy:ok"
            /\ \A i \in 2..Len(o.effects) :
                  o.effects[i] \notin {"copy:ok", "copy:failed", "copy:threw"}
            /\ o.copied = IF lastSend.env.clip = "denied" THEN Empty
                          ELSE formatMessageForClipboard(lastSend.message)
            /\ o.settled = "resolved"
            /\ o.result = sendToAI(lastSend.message, DefaultTrue(lastSend.autoSend),
                                   platformId, copyWorks).result

\* The copy failed and the deep link was opened all the same.
C9_Witness ==
    /\ lastSend.entry = "sendToAI"
    /\ lastSend.env.clip = "denied"
    /\ lastSend.outcome.effects = <<"copy:failed", "deeplink:ok">>
    /\ lastSend.outcome.result = Result(TRUE, "deeplink", "undefined", "ChatGPT")
    /\ clipboard = Empty
    /\ openTabs /= {}

\* C10: sendToAI, the background handlers and handleScreenshotMode never
\* reject: whatever the storage reads, the clipboard write, the tab creations
\* and the script executions do, a call that has ended has resolved with an
\* object whose success is a boolean and whose error, on failure, is a string.
C10_NoExceptionEscapes ==
    /\ lastSend.entry /= "none" =>
          /\ lastSend.outcome.settled = "resolved"
          /\ lastSend.outcome.result.success \in BOOLEAN
          /\ ~lastSend.outcome.result.success =>
                lastSend.outcome.result.error /= "undefined"
    /\ shot.settled /= "rejected"
    /\ shot.pc = "done" <=> shot.settled = "resolved"
    /\ shot.pc = "done" =>
          /\ shot.result.success \in BOOLEAN
          /\ ~shot.result.success => shot.result.error /= "undefined"

\* sendToAI was called while the storage reads rejected, the clipboard write
\* failed and the tab creation threw, and resolved with a failure.
C10_Witness ==
    /\ lastSend.entry = "sendToAI"
    /\ lastSend.env.reads = "none"
    /\ lastSend.env.clip = "denied"
    /\ lastSend.env.base = "throws"
    /\ lastSend.outcome.settled = "resolved"
    /\ lastSend.outcome.result =
          Result(FALSE, "clipboard", "Failed to open ChatGPT tab", "ChatGPT")

\* C12: at no time are two settings writes in flight: of all the set() calls
\* the saveSettings timer callbacks issued to the synchronized and the local
\* backend, at most one has not settled.
C12_WritesNeverConcurrent ==
    Cardinality({c \in 1..Len(saves) :
                    saves[c].sync = "inflight" \/ saves[c].local = "inflight"}) <= 1

\* C13: once resetSettings has settled, neither backend holds a stored
\* setting and getSettings returns exactly the built-in defaults, whatever
\* saveSettings calls were made before the reset and however the clear()
\* calls of the reset ended.
C13_ResetDestroysSettings ==
    reset.pc = "done" =>
        /\ DOMAIN syncStore \cap DOMAIN DefaultSettings0 = {}
        /\ DOMAIN localStore \cap DOMAIN DefaultSettings0 = {}
        /\ lastGet.called => lastGet.value = DefaultSettings0

\* C14: the promise of resetSettings is never rejected: it resolves when the
\* synchronized clear() failed (the local one is then not issued), and when
\* the local clear() settled, failed or not.
C14_ResetNeverRejects ==
    /\ reset.settled \in {"pending", "resolved"}
    /\ reset.pc = "done" <=> reset.settled = "resolved"
    /\ reset.sync = "failed" => reset.settled = "resolved" /\ reset.local = "none"
    /\ (reset.sync = "ok" /\ reset.local \in {"ok", "failed"}) =>
          reset.settled = "resolved"
    /\ reset.sync = "inflight" \/ reset.local = "inflight" => reset.settled = "pending"

\* The synchronized clear() succeeded, the local one failed, and the promise
\* is resolved.
C14_Witness ==
    /\ reset.clears = <<"sync", "local">>
    /\ reset.sync = "ok"
    /\ reset.local = "failed"
    /\ reset.settled = "resolved"
    /\ localStore /= EmptyStore

\* C15: the record getSettings returns has the keys of the default settings
\* and no other: a key stored in a backend that is not an ExtensionSettings
\* field does not appear in it.
C15_GetSettingsOnlyDefaultKeys ==
    lastGet.called => DOMAIN lastGet.value = DOMAIN DefaultSettings0

\* The synchronized backend holds customPlatforms next to a setting;
\* getSettings returned the setting and not customPlatforms.
C15_Witness ==
    /\ lastGet.called
    /\ lastGet.reads = <<"sync">>
    /\ "customPlatforms" \in DOMAIN syncStore
    /\ "customPlatforms" \notin DOMAIN lastGet.value
    /\ "darkMode" \in DOMAIN syncStore
    /\ lastGet.value.darkMode = syncStore.darkMode

\* C16: the callback registered with onSettingsChanged is invoked for a
\* change event only if a changed key is an ExtensionSettings field; it is
\* then passed exactly the changed keys that are ExtensionSettings fields,
\* each with its new value; an event none of whose keys is an
\* ExtensionSettings field does not invoke it.
C16_ListenerPassesKnownKeysOnly ==
    changed.fired =>
        LET known == DOMAIN changed.changes \cap DOMAIN DefaultSettings0
        IN  /\ changed.invoked => known /= {}
            /\ changed.invoked =>
                  changed.arg = [k \in known |-> changed.changes[k].newValue]
            /\ known = {} => ~changed.invoked

\* C17: saveCustomPlatforms writes the synchronized backend first and the
\* local backend only if that write failed, and the operation that called it
\* (add, remove, update) never rejects, whichever writes fail.
C17_SaveCustomPlatformsNeverRejects ==
    (ops.op /= "none" /\ ops.saved) =>
        /\ ops.writes[1] = "sync"
        /\ ops.writes = (IF "sync" \in ops.failed THEN <<"sync", "local">> ELSE <<"sync">>)
        /\ ops.settled = "resolved"

\* The platform a stored custom entry resolves to.
AsPlatform(customPlatform) ==
    [id |-> customPlatform.id, name |-> customPlatform.name,
     url |-> customPlatform.url, selectors |-> <<>>]

\* C18: for every id, getBuiltInPlatform(id) is the built-in entry of that id
\* or else the chatgpt entry, and getPlatform(id) is the built-in entry of
\* that id, or else the stored custom platform of that id with no selectors,
\* or else the chatgpt entry.
C18_PlatformResolutionTotal ==
    lookup.called =>
        LET id == lookup.id
            stored == lookup.customPlatforms
        IN  /\ lookup.builtIn = (IF id \in DOMAIN AI_PLATFORMS THEN AI_PLATFORMS[id]
                                 ELSE AI_PLATFORMS.chatgpt)
            /\ id \in DOMAIN AI_PLATFORMS => lookup.platform = AI_PLATFORMS[id]
            /\ (id \notin DOMAIN AI_PLATFORMS /\ id \in PlatformIds(stored)) =>
                  \E i \in 1..Len(stored) :
                      stored[i].id = id /\ lookup.platform = AsPlatform(stored[i])
            /\ (id \notin DOMAIN AI_PLATFORMS /\ id \notin PlatformIds(stored)) =>
                  lookup.platform = AI_PLATFORMS.chatgpt

\* The ids of a list are pairwise distinct.
DistinctIds(platforms) ==
    \A i, j \in 1..Len(platforms) : platforms[i].id = platforms[j].id => i = j

C20_MissingIdIsNoOp ==
    [][(/\ ops'.n = ops.n + 1
        /\ ops'.op \in {"remove", "update"}
        /\ ops'.id \notin PlatformIds(ops'.read))
       => (/\ ops'.settled = "resolved"
           /\ syncStore' = syncStore
           /\ localStore' = localStore)]_vars

\* C11: the routine scans at most four times, the first scan when it starts
\* and each later one 1000, 2000 and 5000 ms after the failed scan before it;
\* only the last scan can have succeeded, a scan succeeds exactly when some
\* selector finds a textarea or an editable div, after a successful scan or
\* the fourth failed one no timer is pending, and until then exactly one is.
C11_RetryLadder ==
    LET ladder == <<0, 1000, 2000, 5000>>
        n == Len(page.scans)
        Failed(i) == page.scans[i].hit = 0
    IN  /\ n <= 4
        /\ page.pc /= "none" => n >= 1
        /\ \A i \in 1..n :
              /\ i > 1 => page.scans[i].at = page.scans[i - 1].at + ladder[i]
              /\ i < n => Failed(i)
              /\ Failed(i) <=>
                    \A k \in DOMAIN page.scans[i].dom :
                        page.scans[i].dom[k] \notin {"textarea", "editable"}
        /\ page.pc \in {"none", "waiting", "injected", "gaveUp"}
        /\ page.pc = "injected" <=> (n >= 1 /\ ~Failed(n))
        /\ page.pc = "gaveUp" <=> (n = 4 /\ Failed(n))
        /\ page.pc = "waiting" <=> (n \in 1..3 /\ Failed(n))
        /\ page.pc = "waiting" =>
              /\ page.timer.set
              /\ page.timer.due = page.scans[n].at + ladder[n + 1]
              /\ now <= page.timer.due
        /\ page.pc /= "waiting" => ~page.timer.set

\* Four scans failed, the last one 8000 ms after the first, on a page where
\* a selector matched an element that is neither a textarea nor editable.
C11_Witness ==
    /\ page.pc = "gaveUp"
    /\ Len(page.scans) = 4
    /\ page.scans[4].at = page.scans[1].at + 8000
    /\ \E k \in DOMAIN page.scans[4].dom : page.scans[4].dom[k] = "other"
    /\ now = 8000

\* C21: the formatted message is the trimmed instructions followed by two
\* newlines when the trimmed instructions are not empty, followed by the
\* trimmed text between an opening line and a closing line of three double
\* quotes when the trimmed text is not empty, an absent field counting as
\* empty; it is empty when both trim to empty.
C21_FormatShape ==
    fmt.formatted =>
        LET i == Trim(OrEmpty(fmt.message.instructions))
            t == Trim(OrEmpty(fmt.message.text))
            quotes == <<Run("qt", 3)>>
            newline == <<Run("nl", 1)>>
            head == IF i /= Empty THEN Concat(i, Concat(newline, newline)) ELSE Empty
            body == IF t /= Empty
                    THEN Concat(Concat(Concat(Concat(quotes, newline), t), newline), quotes)
                    ELSE Empty
        IN  /\ fmt.fullMessage = Concat(head, body)
            /\ StrLen(fmt.fullMessage) = (IF i /= Empty THEN StrLen(i) + 2 ELSE 0)
                                         + (IF t /= Empty THEN StrLen(t) + 8 ELSE 0)
            /\ (i = Empty /\ t = Empty) => fmt.fullMessage = Empty

\* A padded text and padded instructions were formatted.
C21_Witness ==
    /\ fmt.formatted
    /\ fmt.message.text = Str(<<Run("sp", 1), Run("al", 5), Run("nl", 1)>>)
    /\ fmt.message.instructions = Str(<<Run("sp", 1), Run("al", 5), Run("nl", 1)>>)
    /\ fmt.fullMessage = <<Run("al", 5), Run("nl", 2), Run("qt", 3), Run("nl", 1),
                           Run("al", 5), Run("nl", 1), Run("qt", 3)>>

\* C22: validateMessage answers "Please enter some text or instructions"
\* exactly when both fields trim to empty; otherwise it answers "Message too
\* long" exactly when the formatted message (trimmed fields, two newlines
\* after the instructions, eight fence characters around the text) is longer
\* than 16384 characters; otherwise it answers valid.
C22_ValidateMessage ==
    fmt.validated =>
        LET i == Trim(OrEmpty(fmt.message.instructions))
            t == Trim(OrEmpty(fmt.message.text))
            length == (IF i /= Empty THEN StrLen(i) + 2 ELSE 0)
                      + (IF t /= Empty THEN StrLen(t) + 8 ELSE 0)
        IN  /\ fmt.formatted => StrLen(fmt.fullMessage) = length
            /\ fmt.validation =
                  (IF i = Empty /\ t = Empty
                   THEN [valid |-> FALSE, error |-> "Please enter some text or instructions"]
                   ELSE IF length > 16384
                   THEN [valid |-> FALSE,
                         error |-> "Message too long. Please shorten your text or instructions."]
                   ELSE [valid |-> TRUE, error |-> "none"])

\* A message whose fields add up to more than 16384 characters as given and
\* whose formatted length is exactly 16384 was found valid.
C22_Witness ==
    /\ fmt.validated
    /\ fmt.formatted
    /\ fmt.validation.valid
    /\ StrLen(fmt.fullMessage) = 16384
    /\ StrLen(OrEmpty(fmt.message.text)) > 16384

C24_WaitAlwaysResolves ==
    /\ [](shot.waitStart /= -1 =>
            /\ ~shot.waitResolved =>
                  /\ shot.pc = "waiting"
                  /\ shot.timeoutDue = shot.waitStart + 10000
                  /\ now <= shot.timeoutDue
                  /\ shot.pollDue /= -1
                  /\ shot.pollDue <= now + 500
            /\ shot.waitResolved =>
                  /\ shot.waitEnd >= shot.waitStart
                  /\ shot.waitEnd <= shot.waitStart + 10000
                  /\ shot.pc \in {"retrying", "done"})
    /\ [][(shot'.polls = shot.polls + 1 /\ ~shot.waitResolved) =>
             (shot'.waitResolved <=>
                 (shot.tab \notin openTabs \/ shot.tabStatus = "complete"))]_vars

\* The tab never completed and the wait was ended by the 10 s timer.
C24_Witness ==
    /\ shot.waitResolved
    /\ shot.waitEnd = shot.waitStart + 10000
    /\ shot.tabStatus = "loading"
    /\ shot.tab \in openTabs
    /\ shot.polls >= 20

\* C30: once waitForTabToLoad has resolved, no poll is issued and no poll
\* timer is armed.
C30_PollingStopsAfterWait ==
    shot.waitResolved => (shot.pollDue = -1 /\ shot.latePolls = 0)

\* C25: a scan takes the first selector, in list order, whose element is a
\* textarea, a text input or an editable div, and fails only when no selector
\* finds such an element.
C25_ScanTakesFirstInputLike ==
    \A n \in 1..Len(page.scans) :
        LET dom == page.scans[n].dom
            inputLike == {k \in DOMAIN dom : dom[k] \in {"textarea", "input", "editable"}}
        IN  /\ page.scans[n].hit = 0 <=> inputLike = {}
            /\ page.scans[n].hit /= 0 =>
                  /\ page.scans[n].hit \in inputLike
                  /\ \A k \in inputLike : page.scans[n].hit <= k

\* C26: every saveSettings promise settles; in particular, in a state where
\* no debounce timer is pending and no set() is in flight, so that nothing is
\* left that could settle a promise, no promise is pending.
C26_EverySaveSettles ==
    (/\ saveTimers = {}
     /\ \A c \in 1..Len(saves) :
           saves[c].sync /= "inflight" /\ saves[c].local /= "inflight")
    => \A c \in 1..Len(saves) : saves[c].promise /= "pending"

\* C27: when the write of the latest saveSettings call succeeded on a
\* backend, nothing else is pending or in flight, and a getSettings call then
\* reads a backend successfully, it returns the saved value of every patched
\* key.
C27_ReadYourWrites ==
    (/\ lastGet.called
     /\ ~(lastGet.syncRejected /\ lastGet.localRejected)
     /\ saves /= <<>>
     /\ saveTimers = {}
     /\ \A c \in 1..Len(saves) :
           saves[c].sync /= "inflight" /\ saves[c].local /= "inflight"
     /\ saves[Len(saves)].sync = "ok" \/ saves[Len(saves)].local = "ok")
    => \A k \in DOMAIN saves[Len(saves)].settings :
           lastGet.value[k] = saves[Len(saves)].settings[k]

\* C28: when the calls made side by side have all completed, each having
\* read from and written to synchronized storage without a failure, the
\* stored list holds the platform of every addCustomPlatform call among them.
C28_NoLostAddition ==
    (/\ racers /= <<>>
     /\ \A i \in 1..Len(racers) :
           /\ racers[i].pc = "done"
           /\ racers[i].settled = "resolved"
           /\ racers[i].reads = "sync"
           /\ racers[i].failed = {})
    => \A i \in 1..Len(racers) :
           racers[i].op = "add" =>
               racers[i].id \in PlatformIds(getCustomPlatforms("sync"))

\* C29: DEFAULT_SETTINGS always holds its initial values, and a getSettings
\* call whose reads both reject returns them.
C29_DefaultsNeverModified ==
    /\ DEFAULT_SETTINGS = DefaultSettings0
    /\ (lastGet.called /\ lastGet.syncRejected /\ lastGet.localRejected) =>
          lastGet.value = DefaultSettings0

====
